---------------------------- MODULE Spec2Model ----------------------------
(***************************************************************************)
(* A model of the dsp library (dac1976/dsp): the math kernel               *)
(* (dsp_math.hpp), the complex FFT and FFT convolution (dsp_fft.hpp), the  *)
(* filter holder (dsp_filter.hpp) and the resampler (dsp_resample.hpp).    *)
(*                                                                         *)
(* Floating point values are modelled exactly.  A scalar is an element of  *)
(* the ring Z[zeta][1/2], zeta = e^(i*pi/RingDim), written as the record   *)
(* [c |-> <<c_0 .. c_(RingDim-1)>>, e |-> k] for                           *)
(* (c_0 + c_1 zeta + ... ) / 2^k.  The ring holds every twiddle factor of  *)
(* a transform of length <= RingDim and i = zeta^(RingDim/2); a real value *)
(* is a scalar equal to its conjugate.  Rounding is therefore not          *)
(* modelled: "equal within tolerance" is checked as exact equality.        *)
(***************************************************************************)
EXTENDS Integers, Sequences, FiniteSets, TLC

VARIABLES
    \* Convolve(first1, last1, first2, last2, result): the two input ranges,
    \* what was written to the result range, the index pairs read, and
    \* whether the call was made and how it ended
    x1, x2, result, reads, cpc,
    \* Gcd(a, b): the arguments, the value returned, the depth of the
    \* recursion, and whether the call was made
    ga, gb, gret, gdepth, gpc,
    \* ComplexFFT on a caller's buffer: the buffer, the caller's copy of it
    \* from before the calls, the calls made so far, and whether the last
    \* call threw
    data, data0, fcalls, ferr,
    \* an FftConvolve object: the constructor's arguments, the object, the
    \* signal and the kernel of the last call, what the call wrote to the
    \* result range, whether it threw, and where the caller is
    fcArgs, fc, fcSig, fcKer, fcOut, fcErr, fcpc,
    \* a FilterHolder object: the constructor's arguments, the object, the
    \* signal and the removeDelay flag of the last call, what the call wrote
    \* to the result range, the indices of the workspace it copied from,
    \* whether it threw, and where the caller is
    fhArgs, fh, fhSig, fhRemove, fhOut, fhReads, fhErr, fhpc,
    \* ComputeResampleFactors: its three parameters (the ratio as a fraction
    \* <<p, q>>), its locals, and where its control is
    requiredResampleFactor, maxNumerator, maxDenominator,
    n_a, d_a, n_b, d_b, n_m, d_m, error, factors, crfpc,
    \* a Resample object: the constructor's arguments, the object, the
    \* cutoff and sampling frequency handed to FirLowPassFilter, the value
    \* ResampledSize() returned, whether the constructor threw, and where
    \* the caller is
    rsArgs, rs, rsDesign, rsSize, rsErr, rspc,
    \* a WindowFunction object: the constructor's arguments (generator, size,
    \* ignoreLastValue), the object, the indices the generator's formula was
    \* evaluated for, whether the last operation threw, what ActualSize(),
    \* EffectiveSize() and Coefficients() returned, the data range and whether
    \* the result range aliases it, the result range after the call, and where
    \* the caller is
    wfArgs, wf, wfEvals, wfErr, wfQuery, wfData, wfAlias, wfOut, wfpc,
    \* a spectrum conversion (ToMagnitude, ToPower): the complex buffer before
    \* the call, the buffer after it, the real vector the copy-out overloads
    \* fill, the call made (name, zeroUnused, fullSpectrum), and whether it was
    \* made
    spData0, spData, spOut, spCall, sppc,
    \* a FIR design function: the call (function, numTaps, cutoff or centre,
    \* bandwidth, sampling frequency, all in Hz), what it returned, where it is
    firCall, firRet, firpc,
    \* an object that is invoked again and again: its class, the constructor
    \* arguments, the object, the input of the last call (the signal, then the
    \* kernel or the removeDelay flag), what it wrote to its result range,
    \* whether the last call threw, and how many calls were made
    objKind, objArgs, object, objIn, objOut, objErr, objCalls,
    \* two threads calling operator() at the same time: the class of the
    \* objects, their constructor arguments, the two objects, and for each
    \* thread the object it calls, its input, where it is and what it received
    ccKind, ccArgs, ccObjs, ccThreads,
    \* To3BinSum: the power spectrum handed in (bins <<re, im>>), magFft before
    \* the call, the spectrum buffer and magFft after it, the overload called
    \* with its flags, the error thrown
    tbIn, tbMag0, tbBuf, tbMag, tbCall, tbErr, tbpc,
    \* Initialise: the number of Initialise calls on the object, the arguments
    \* of the last one, the object before it, the error it threw, and the
    \* number of invocations that preceded it
    iniCount, iniArgs, iniPrev, iniErr, iniCalls,
    \* MagnitudeFft and ThreeBinSumFft: the class, the object, the arguments of
    \* the call (signal length, size of realSpectra, fullSpectrum, whether
    \* phases is given and its size), the element writes the call made, the
    \* sizes of realSpectra and phases afterwards, the error thrown
    mfKind, mfft, mfCall, mfWrites, mfSpectra, mfPhases, mfErr, mfpc

convVars == <<x1, x2, result, reads, cpc>>
gcdVars == <<ga, gb, gret, gdepth, gpc>>
fftVars == <<data, data0, fcalls, ferr>>
fcVars == <<fcArgs, fc, fcSig, fcKer, fcOut, fcErr, fcpc>>
fhVars == <<fhArgs, fh, fhSig, fhRemove, fhOut, fhReads, fhErr, fhpc>>
crfVars == <<requiredResampleFactor, maxNumerator, maxDenominator,
             n_a, d_a, n_b, d_b, n_m, d_m, error, factors, crfpc>>
rsVars == <<rsArgs, rs, rsDesign, rsSize, rsErr, rspc>>
wfVars == <<wfArgs, wf, wfEvals, wfErr, wfQuery, wfData, wfAlias, wfOut, wfpc>>
spVars == <<spData0, spData, spOut, spCall, sppc>>
firVars == <<firCall, firRet, firpc>>
objVars == <<objKind, objArgs, object, objIn, objOut, objErr, objCalls>>
ccVars == <<ccKind, ccArgs, ccObjs, ccThreads>>
tbVars == <<tbIn, tbMag0, tbBuf, tbMag, tbCall, tbErr, tbpc>>
iniVars == <<iniCount, iniArgs, iniPrev, iniErr, iniCalls>>
mfVars == <<mfKind, mfft, mfCall, mfWrites, mfSpectra, mfPhases, mfErr, mfpc>>
vars == <<convVars, gcdVars, fftVars, fcVars, fhVars, crfVars, rsVars, wfVars, spVars, firVars, objVars, ccVars, tbVars, iniVars, mfVars>>

\* what a step of one component leaves alone
ExceptConv == <<gcdVars, fftVars, fcVars, fhVars, crfVars, rsVars, wfVars, spVars, firVars, objVars, ccVars, tbVars, iniVars, mfVars>>
ExceptGcd == <<convVars, fftVars, fcVars, fhVars, crfVars, rsVars, wfVars, spVars, firVars, objVars, ccVars, tbVars, iniVars, mfVars>>
ExceptFft == <<convVars, gcdVars, fcVars, fhVars, crfVars, rsVars, wfVars, spVars, firVars, objVars, ccVars, tbVars, iniVars, mfVars>>
ExceptFc == <<convVars, gcdVars, fftVars, fhVars, crfVars, rsVars, wfVars, spVars, firVars, objVars, ccVars, tbVars, iniVars, mfVars>>
ExceptFh == <<convVars, gcdVars, fftVars, fcVars, crfVars, rsVars, wfVars, spVars, firVars, objVars, ccVars, tbVars, iniVars, mfVars>>
ExceptCrf == <<convVars, gcdVars, fftVars, fcVars, fhVars, rsVars, wfVars, spVars, firVars, objVars, ccVars, tbVars, iniVars, mfVars>>
ExceptRs == <<convVars, gcdVars, fftVars, fcVars, fhVars, crfVars, wfVars, spVars, firVars, objVars, ccVars, tbVars, iniVars, mfVars>>
ExceptWf == <<convVars, gcdVars, fftVars, fcVars, fhVars, crfVars, rsVars, spVars, firVars, objVars, ccVars, tbVars, iniVars, mfVars>>
ExceptSp == <<convVars, gcdVars, fftVars, fcVars, fhVars, crfVars, rsVars, wfVars, firVars, objVars, ccVars, tbVars, iniVars, mfVars>>
ExceptFir == <<convVars, gcdVars, fftVars, fcVars, fhVars, crfVars, rsVars, wfVars, spVars, objVars, ccVars, tbVars, iniVars, mfVars>>
ExceptObj == <<convVars, gcdVars, fftVars, fcVars, fhVars, crfVars, rsVars, wfVars, spVars, firVars, ccVars, tbVars, iniVars, mfVars>>
ExceptCc == <<convVars, gcdVars, fftVars, fcVars, fhVars, crfVars, rsVars, wfVars, spVars, firVars, objVars, tbVars, iniVars, mfVars>>
ExceptTb == <<convVars, gcdVars, fftVars, fcVars, fhVars, crfVars, rsVars, wfVars, spVars, firVars, objVars, ccVars, iniVars, mfVars>>
ExceptIni == <<convVars, gcdVars, fftVars, fcVars, fhVars, crfVars, rsVars, wfVars, spVars, firVars, objVars, ccVars, tbVars, mfVars>>
ExceptMf == <<convVars, gcdVars, fftVars, fcVars, fhVars, crfVars, rsVars, wfVars, spVars, firVars, objVars, ccVars, tbVars, iniVars>>

(***************************************************************************)
(* Bounds of the model.                                                    *)
(***************************************************************************)
\* log2 of the longest transform (and of the dimension of the scalar ring)
MaxLog2 == 3
\* longest range handed to Convolve
MaxLen == 3
\* largest argument handed to Gcd
MaxGcdArg == 40
\* longest signal an FftConvolve or a FilterHolder is constructed for
MaxSig == 4
\* longest kernel (most filter coefficients) of an FftConvolve or FilterHolder
MaxKer == 3
\* largest numerator and denominator of the ratio handed to
\* ComputeResampleFactors
MaxRatioTerm == 8
\* largest maxNumerator and maxDenominator handed to ComputeResampleFactors
MaxFactor == 4
\* longest signal a Resample is constructed for
MaxResampleLen == 4
\* largest upsample and downsample factor of a Resample
MaxRate == 3
\* largest sampling and cutoff frequency (Hz) of a Resample
MaxFreq == 4
\* most filter taps of a Resample
MaxTaps == 3
\* largest size of a WindowFunction
MaxWin == 5
\* most bins of a buffer handed to ToMagnitude and ToPower
MaxBins == 4
\* most taps of a FIR design call
MaxFirTaps == 5
\* largest frequency and bandwidth (Hz) of a FIR design call
MaxFirFreq == 4
\* most invocations of one object
MaxCalls == 3
\* longest convolution (signal + kernel - 1) of an object that is invoked repeatedly
MaxObjConv == 6
\* longest convolution of an object that two threads call at the same time
MaxSharedConv == 5
\* largest size of a realSpectra vector handed to MagnitudeFft or ThreeBinSumFft
MaxSpectra == 9
\* most Initialise calls on one object
MaxInits == 1
\* most invocations of an object that is initialised again
MaxInitCalls == 2

RingDim == 2 ^ MaxLog2

Max(a, b) == IF a >= b THEN a ELSE b
Min(a, b) == IF a <= b THEN a ELSE b

(***************************************************************************)
(* Exact scalars.                                                          *)
(***************************************************************************)
ScalarZero == [c |-> [j \in 1..RingDim |-> 0], e |-> 0]

\* static_cast<FloatType>(v) of an integer v
FromInt(v) == [c |-> [j \in 1..RingDim |-> IF j = 1 THEN v ELSE 0], e |-> 0]

\* complex_type{re, im} of two integers
Cplx(re, im) ==
    [c |-> [j \in 1..RingDim |->
               IF j = 1 THEN re ELSE IF j = (RingDim \div 2) + 1 THEN im ELSE 0],
     e |-> 0]

AllEven(c) == \A j \in 1..RingDim : c[j] % 2 = 0

RECURSIVE Reduce(_)
\* the normal form: the least exponent e
Reduce(a) ==
    IF a.e > 0 /\ AllEven(a.c)
    THEN Reduce([c |-> [j \in 1..RingDim |-> a.c[j] \div 2], e |-> a.e - 1])
    ELSE a

\* a + b of two evaluated scalars
AddValues(a, b) ==
    IF a.e = b.e
    THEN Reduce([c |-> [j \in 1..RingDim |-> a.c[j] + b.c[j]], e |-> a.e])
    ELSE LET m == Max(a.e, b.e)
             fa == 2 ^ (m - a.e)
             fb == 2 ^ (m - b.e)
         IN Reduce([c |-> [j \in 1..RingDim |-> fa * a.c[j] + fb * b.c[j]], e |-> m])

\* a + b; the operands are evaluated once, by binding them over singleton sets
ScalarAdd(a, b) == CHOOSE r \in {AddValues(u, v) : u \in {a}, v \in {b}} : TRUE

ScalarNeg(a) == [c |-> [j \in 1..RingDim |-> 0 - a.c[j]], e |-> a.e]

ScalarSub(a, b) == ScalarAdd(a, ScalarNeg(b))

\* the exponents (0-based) of the non-zero terms of a
Support(a) == SelectSeq([j \in 1..RingDim |-> j - 1], LAMBDA j : a.c[j + 1] # 0)

RECURSIVE MulTerm(_, _, _, _, _)
\* coefficient k (0-based) of a * b, summed over the terms S[i..] of b;
\* zeta^RingDim = -1
MulTerm(a, b, S, k, i) ==
    IF i > Len(S) THEN 0
    ELSE LET j == S[i]
         IN (IF k >= j THEN b.c[j + 1] * a.c[k - j + 1]
             ELSE 0 - (b.c[j + 1] * a.c[k - j + RingDim + 1]))
            + MulTerm(a, b, S, k, i + 1)

MulBy(a, b, S) ==
    Reduce([c |-> [k \in 1..RingDim |-> MulTerm(a, b, S, k - 1, 1)], e |-> a.e + b.e])

\* a * b of two evaluated scalars, summed over the terms of the operand that
\* has fewer of them
MulValues(a, b) ==
    CHOOSE r \in {IF Len(Sb) <= Len(Sa) THEN MulBy(a, b, Sb) ELSE MulBy(b, a, Sa) :
                    Sa \in {Support(a)}, Sb \in {Support(b)}} : TRUE

\* a * b; the operands are evaluated once
ScalarMul(a, b) == CHOOSE r \in {MulValues(u, v) : u \in {a}, v \in {b}} : TRUE

\* std::conj: conj(zeta^j) = -zeta^(RingDim-j)
ScalarConj(a) ==
    [c |-> [j \in 1..RingDim |-> IF j = 1 THEN a.c[1] ELSE 0 - a.c[RingDim + 2 - j]],
     e |-> a.e]

\* z / 2^m
ScalarDivPow2(a, m) == Reduce([c |-> a.c, e |-> a.e + m])

\* z.real(), as a scalar: (z + conj z) / 2
RealPart(a) == CHOOSE r \in {ScalarDivPow2(AddValues(u, ScalarConj(u)), 1) : u \in {a}} : TRUE

(***************************************************************************)
(* dsp_math.hpp: Convolve                                                  *)
(***************************************************************************)
RECURSIVE ConvolveInner(_, _, _, _, _, _)
\* the kSub loop: *result += x[kSub] * h[k - kSub]
ConvolveInner(x, h, k, kSub, kMax, acc) ==
    IF kSub > kMax THEN acc
    ELSE ConvolveInner(x, h, k, kSub + 1, kMax,
                       ScalarAdd(acc, ScalarMul(x[kSub + 1], h[k - kSub + 1])))

ConvolveKMin(k, M, N) == IF k >= N - 1 THEN k - (N - 1) ELSE 0
\* an off-by-one upper limit: the last sample of range 1 is never used
ConvolveKMaxShort(k, M, N) == IF k < M - 1 THEN k ELSE M - 2

ConvolveKMax(k, M, N) == IF k < M - 1 THEN k ELSE M - 1

RECURSIVE ConvolveOuter(_, _, _, _)
\* the k loop: one output per k in 0..K-1
ConvolveOuter(x, h, k, out) ==
    LET M == Len(x)
        N == Len(h)
        K == M + N - 1
    IN IF k >= K THEN out
       ELSE ConvolveOuter(x, h, k + 1,
              Append(out, ConvolveInner(x, h, k, ConvolveKMin(k, M, N),
                                        ConvolveKMax(k, M, N), ScalarZero)))

\* what Convolve writes to the result range (requires M > 0 and N > 0)
Convolve(x, h) == ConvolveOuter(x, h, 0, <<>>)

\* the index pairs <<kSub, k - kSub>> that Convolve dereferences
ConvolveReads(M, N) ==
    UNION {{<<kSub, k - kSub>> : kSub \in ConvolveKMin(k, M, N)..ConvolveKMax(k, M, N)}
           : k \in 0..(M + N - 2)}

\* DSP_ASSERT_THROW(M > 0, ...); DSP_ASSERT_THROW(N > 0, ...)
ConvolveAccepts(x, h) == Len(x) > 0 /\ Len(h) > 0

(***************************************************************************)
(* dsp_math.hpp: Gcd, IsPowerOf2                                           *)
(***************************************************************************)
RECURSIVE GcdNoShift(_, _)
\* the both-even branch without the "<< 1"
GcdNoShift(a, b) ==
    IF a = b THEN a
    ELSE IF 0 = a THEN b
    ELSE IF 0 = b THEN a
    ELSE IF a % 2 = 0
         THEN IF b % 2 = 1
              THEN GcdNoShift(a \div 2, b)
              ELSE GcdNoShift(a \div 2, b \div 2)
    ELSE IF b % 2 = 0 THEN GcdNoShift(a, b \div 2)
    ELSE IF a > b THEN GcdNoShift((a - b) \div 2, b)
    ELSE GcdNoShift((b - a) \div 2, a)

RECURSIVE Gcd(_, _)
Gcd(a, b) ==
    IF a = b THEN a
    ELSE IF 0 = a THEN b
    ELSE IF 0 = b THEN a
    ELSE IF a % 2 = 0
         THEN IF b % 2 = 1
              THEN Gcd(a \div 2, b)
              ELSE Gcd(a \div 2, b \div 2) * 2
    ELSE IF b % 2 = 0 THEN Gcd(a, b \div 2)
    ELSE IF a > b THEN Gcd((a - b) \div 2, b)
    ELSE Gcd((b - a) \div 2, a)

RECURSIVE GcdDepth(_, _)
\* the number of nested calls Gcd(a, b) makes
GcdDepth(a, b) ==
    IF a = b THEN 0
    ELSE IF 0 = a THEN 0
    ELSE IF 0 = b THEN 0
    ELSE IF a % 2 = 0
         THEN IF b % 2 = 1
              THEN 1 + GcdDepth(a \div 2, b)
              ELSE 1 + GcdDepth(a \div 2, b \div 2)
    ELSE IF b % 2 = 0 THEN 1 + GcdDepth(a, b \div 2)
    ELSE IF a > b THEN 1 + GcdDepth((a - b) \div 2, b)
    ELSE 1 + GcdDepth((b - a) \div 2, a)

RECURSIVE BitAnd(_, _)
\* a & b of two non-negative integers
BitAnd(a, b) ==
    IF a = 0 \/ b = 0 THEN 0
    ELSE (a % 2) * (b % 2) + 2 * BitAnd(a \div 2, b \div 2)

\* without the test n > 0
IsPowerOf2NoSign(n) == BitAnd(n, n - 1) = 0

\* (n > 0) && ((n & (n - 1)) == 0)
IsPowerOf2(n) == (n > 0) /\ (BitAnd(n, n - 1) = 0)

(***************************************************************************)
(* 32-bit words, as the bits 0..31, for the bit reversal of               *)
(* CooleyTukeyFFT.                                                         *)
(***************************************************************************)
Bit(n, i) == (n \div (2 ^ i)) % 2

\* the uint32_t with the 16-bit halves hi and lo
WordOf(hi, lo) == [i \in 0..31 |-> IF i < 16 THEN Bit(lo, i) ELSE Bit(hi, i - 16)]

WordAnd(u, v) == [i \in 0..31 |-> u[i] * v[i]]
WordOr(u, v) == [i \in 0..31 |-> Max(u[i], v[i])]
WordShr(u, s) == [i \in 0..31 |-> IF i + s <= 31 THEN u[i + s] ELSE 0]
WordShl(u, s) == [i \in 0..31 |-> IF i - s >= 0 THEN u[i - s] ELSE 0]

RECURSIVE WordSum(_, _)
WordSum(u, i) == IF i > 30 THEN 0 ELSE u[i] * (2 ^ i) + WordSum(u, i + 1)

\* the value of a word below 2^31
WordToNat(u) == WordSum(u, 0)

\* 0xaaaaaaaa, 0x55555555, 0xcccccccc, 0x33333333, ...
MaskAA == WordOf(43690, 43690)
Mask55 == WordOf(21845, 21845)
MaskCC == WordOf(52428, 52428)
Mask33 == WordOf(13107, 13107)
MaskF0 == WordOf(61680, 61680)
Mask0F == WordOf(3855, 3855)
MaskFF00 == WordOf(65280, 65280)
Mask00FF == WordOf(255, 255)

\* the four mask lines and the 16-bit rotation, before the final shift
ReverseBits32(a) ==
    LET b0 == WordOf(0, a)
        b1 == WordOr(WordShr(WordAnd(b0, MaskAA), 1), WordShl(WordAnd(b0, Mask55), 1))
        b2 == WordOr(WordShr(WordAnd(b1, MaskCC), 2), WordShl(WordAnd(b1, Mask33), 2))
        b3 == WordOr(WordShr(WordAnd(b2, MaskF0), 4), WordShl(WordAnd(b2, Mask0F), 4))
        b4 == WordOr(WordShr(WordAnd(b3, MaskFF00), 8), WordShl(WordAnd(b3, Mask00FF), 8))
    IN WordOr(WordShr(b4, 16), WordShl(b4, 16))

ReverseTable == [a \in 0..(RingDim - 1) |-> ReverseBits32(a)]

\* What a build makes of a 32-bit shift by 32 or more, which C++ leaves
\* undefined: the count taken modulo 32, or all bits shifted out.
ShiftModes == {"mask", "zero"}

\* w >> s on uint32_t
ShiftRight32(w, s, mode) ==
    IF s <= 31 THEN WordShr(w, s)
    ELSE IF mode = "mask" THEN WordShr(w, s % 32)
    ELSE [i \in 0..31 |-> 0]

RECURSIVE Log2Floor(_)
\* static_cast<uint32_t>(std::log2(n)) and std::floor(std::log2(n)), n >= 1
Log2Floor(n) == IF n <= 1 THEN 0 ELSE 1 + Log2Floor(n \div 2)

(***************************************************************************)
(* dsp_fft.hpp: ComplexFFT                                                 *)
(***************************************************************************)
\* e^(i*pi*j/RingDim)
Root(j) ==
    LET jj == j % (2 * RingDim)
    IN [c |-> [q \in 1..RingDim |->
                 IF jj < RingDim
                 THEN (IF q = jj + 1 THEN 1 ELSE 0)
                 ELSE (IF q = jj - RingDim + 1 THEN 0 - 1 ELSE 0)],
        e |-> 0]

\* complex_type(std::cos(pi / N), std::sin(pi / N))
InitialTwiddle(N) == Root(RingDim \div N)

RECURSIVE ButterflyA(_, _, _, _, _, _)
\* for (a = l; a < N; a += n)
ButterflyA(d, a, N, n, k, T) ==
    IF a >= N THEN d
    ELSE LET b == a + k
             t == ScalarSub(d[a + 1], d[b + 1])
         IN ButterflyA([d EXCEPT ![a + 1] = ScalarAdd(d[a + 1], d[b + 1]),
                                 ![b + 1] = ScalarMul(t, T)],
                       a + n, N, n, k, T)

RECURSIVE ButterflyL(_, _, _, _, _, _, _)
\* for (l = 0; l < k; ++l) { ...; T *= phiT; }
ButterflyL(d, l, N, n, k, T, phiT) ==
    IF l >= k THEN d
    ELSE ButterflyL(ButterflyA(d, l, N, n, k, T), l + 1, N, n, k,
                    ScalarMul(T, phiT), phiT)

RECURSIVE Stages(_, _, _, _)
\* while (k > 1) { n = k; k >>= 1; phiT = phiT * phiT; T = 1; ... }
Stages(d, N, k, phiT) ==
    IF k <= 1 THEN d
    ELSE LET phi2 == ScalarMul(phiT, phiT)
         IN Stages(ButterflyL(d, 0, N, k, k \div 2, FromInt(1), phi2),
                   N, k \div 2, phi2)

\* the index b that the reorder loop computes for a
ReorderIndex(a, m, mode) == WordToNat(ShiftRight32(ReverseTable[a], 32 - m, mode))

SwapAt(d, a, b) == [d EXCEPT ![a + 1] = d[b + 1], ![b + 1] = d[a + 1]]

\* the reorder loop left out
DecimateNot(d, a, N, m, mode) == d

RECURSIVE Decimate(_, _, _, _, _)
\* for (a = 0; a < N; ++a) { b = reverse(a) >> (32 - m); if (b > a) swap }
Decimate(d, a, N, m, mode) ==
    IF a >= N THEN d
    ELSE LET b == ReorderIndex(a, m, mode)
         IN Decimate(IF b > a THEN SwapAt(d, a, b) ELSE d, a + 1, N, m, mode)

CooleyTukeyFFT(d, mode) ==
    LET N == Len(d)
    IN Decimate(Stages(d, N, N, InitialTwiddle(N)), 0, N, Log2Floor(N), mode)

\* the conjugate lambda of Inverse
Conjugate(d) == [i \in 1..Len(d) |-> ScalarConj(d[i])]

\* z /= N for every bin; N is a power of two wherever the library calls it
Normalise(d) == [i \in 1..Len(d) |-> ScalarDivPow2(d[i], Log2Floor(Len(d)))]

\* Forward(complex_vector&): the buffer after the call, and whether it threw
Forward(d, mode) ==
    IF ~IsPowerOf2(Len(d)) THEN [err |-> "InvalidSize", data |-> d]
    ELSE [err |-> "none", data |-> CooleyTukeyFFT(d, mode)]

\* Inverse(complex_vector&)
Inverse(d, mode) ==
    IF ~IsPowerOf2(Len(d)) THEN [err |-> "InvalidSize", data |-> d]
    ELSE [err |-> "none",
          data |-> Normalise(Conjugate(CooleyTukeyFFT(Conjugate(d), mode)))]

(***************************************************************************)
(* dsp_fft.hpp: FftConvolve                                                *)
(***************************************************************************)
Zeros(n) == [i \in 1..n |-> ScalarZero]

\* a default-constructed FftConvolve
FftConvolveDefault ==
    [m_discreteConvolutionLength |-> 0, m_workspace1 |-> <<>>, m_workspace2 |-> <<>>]

\* the smallest power of two that is at least L: L itself when L is one
WorkspaceLengthAtLeast(L) == IF 2 ^ Log2Floor(L) = L THEN L ELSE 2 ^ (Log2Floor(L) + 1)

\* size_t(1) << (powerOf2 + 1), powerOf2 = size_t(floor(log2(L)) + 0.5)
WorkspaceLength(L) == 2 ^ (Log2Floor(L) + 1)

\* FftConvolve(signalLength, kernelLength): the object, or that it threw
FftConvolveCtor(signalLength, kernelLength) ==
    IF ~(signalLength > 0) THEN [err |-> "signalLength <= 0", obj |-> FftConvolveDefault]
    ELSE IF ~(kernelLength > 0) THEN [err |-> "kernelLength <= 0", obj |-> FftConvolveDefault]
    ELSE LET L == signalLength + kernelLength - 1
         IN [err |-> "none",
             obj |-> [m_discreteConvolutionLength |-> L,
                      m_workspace1 |-> Zeros(WorkspaceLength(L)),
                      m_workspace2 |-> Zeros(WorkspaceLength(L))]]

\* the signal written over the front of the workspace, the rest left as
\* the last call left it
LoadWorkspaceNoFill(ws, x) == [i \in 1..Len(ws) |-> IF i <= Len(x) THEN x[i] ELSE ws[i]]

\* std::fill(next(ws.begin(), n), ws.end(), 0), then
\* std::transform(first, last, ws.begin(), convertToComplex)
LoadWorkspace(ws, x) ==
    LET filled == [i \in 1..Len(ws) |-> IF i > Len(x) THEN ScalarZero ELSE ws[i]]
    IN [i \in 1..Len(ws) |-> IF i <= Len(x) THEN x[i] ELSE filled[i]]

ImagUnit == Cplx(0, 1)

\* z.imag(), as a real scalar: (z - conj z) / 2i
ImagPart(z) ==
    ScalarNeg(ScalarMul(ImagUnit, ScalarDivPow2(ScalarSub(z, ScalarConj(z)), 1)))

\* complex_type{re, im} of two real scalars
MakeComplex(re, im) == ScalarAdd(re, ScalarMul(ImagUnit, im))

\* the product of two evaluated bins, as the crossMultiply lambda writes it
CrossMultiplyValues(x, y) ==
    MakeComplex(ScalarSub(ScalarMul(RealPart(x), RealPart(y)),
                          ScalarMul(ImagPart(x), ImagPart(y))),
                ScalarAdd(ScalarMul(ImagPart(x), RealPart(y)),
                          ScalarMul(RealPart(x), ImagPart(y))))

\* a sign error in the real part: x.real * y.real + x.imag * y.imag
CrossMultiplySignError(x, y) ==
    CHOOSE r \in {MakeComplex(ScalarAdd(ScalarMul(RealPart(u), RealPart(v)),
                                        ScalarMul(ImagPart(u), ImagPart(v))),
                              ScalarAdd(ScalarMul(ImagPart(u), RealPart(v)),
                                        ScalarMul(RealPart(u), ImagPart(v)))) :
                    u \in {x}, v \in {y}} : TRUE

\* the crossMultiply lambda; the operands are evaluated once
CrossMultiply(x, y) == CHOOSE r \in {CrossMultiplyValues(u, v) : u \in {x}, v \in {y}} : TRUE

\* the results moved out of workspace 1, which shrinks to their length
FftConvolveOutputTrim(obj, f2, inv) ==
    [err |-> "none",
     obj |-> [obj EXCEPT !.m_workspace1 = SubSeq(inv.data, 1, obj.m_discreteConvolutionLength),
                         !.m_workspace2 = f2.data],
     out |-> [i \in 1..obj.m_discreteConvolutionLength |-> RealPart(inv.data[i])]]

\* the last step of operator(): copy the real parts of the first
\* m_discreteConvolutionLength bins to the result range
FftConvolveOutput(obj, f2, inv) ==
    [err |-> "none",
     obj |-> [obj EXCEPT !.m_workspace1 = inv.data, !.m_workspace2 = f2.data],
     out |-> [i \in 1..obj.m_discreteConvolutionLength |-> RealPart(inv.data[i])]]

\* cross-multiply the two spectra into workspace 1 and invert it
FftConvolveMultiply(obj, w1, w2, f1, f2, mode) ==
    IF f1.err # "none"
    THEN [err |-> f1.err,
          obj |-> [obj EXCEPT !.m_workspace1 = w1, !.m_workspace2 = w2],
          out |-> <<>>]
    ELSE CHOOSE r \in
           {FftConvolveOutput(obj, f2, inv) :
              inv \in {Inverse([i \in 1..Len(w1) |->
                                  CrossMultiply(f1.data[i], f2.data[i])], mode)}} : TRUE

\* forward-transform both workspaces
FftConvolveTransform(obj, w1, w2, mode) ==
    CHOOSE r \in {FftConvolveMultiply(obj, w1, w2, f1, f2, mode) :
                    f1 \in {Forward(w1, mode)}, f2 \in {Forward(w2, mode)}} : TRUE

\* FftConvolve::operator(): the object afterwards, what was written to the
\* result range, and whether the call threw
FftConvolveCall(obj, x, h, mode) ==
    IF ~(Len(x) <= Len(obj.m_workspace1))
    THEN [err |-> "signal length is incorrect", obj |-> obj, out |-> <<>>]
    ELSE IF ~(Len(h) <= Len(obj.m_workspace2))
    THEN [err |-> "kernel length is incorrect", obj |-> obj, out |-> <<>>]
    ELSE CHOOSE r \in {FftConvolveTransform(obj, w1, w2, mode) :
                         w1 \in {LoadWorkspace(obj.m_workspace1, x)},
                         w2 \in {LoadWorkspace(obj.m_workspace2, h)}} : TRUE

(***************************************************************************)
(* dsp_filter.hpp: FilterHolder                                            *)
(***************************************************************************)
\* a default-constructed FilterHolder
FilterHolderDefault ==
    [m_signalLength |-> 0, m_filterCoeffs |-> <<>>, m_useFastConvolution |-> TRUE,
     m_fftConvolve |-> FftConvolveDefault, m_filteredSignal |-> <<>>]

\* m_filteredSignal(signalLength + m_filterCoeffs.size() - 1) in the member
\* initialiser list: for 0 + 0 - 1 the size_t wraps to 2^64 - 1, above
\* max_size(), and the vector constructor throws std::length_error
FilteredSignalTooLong(signalLength, filterCoeffs) == signalLength + Len(filterCoeffs) = 0

\* FilterHolder(signalLength, filterCoeffs, useFastConvolution): the members
\* are initialised before the body checks the arguments
FilterHolderCtor(signalLength, filterCoeffs, useFastConvolution) ==
    IF FilteredSignalTooLong(signalLength, filterCoeffs)
    THEN [err |-> "std::length_error", obj |-> FilterHolderDefault]
    ELSE IF ~(signalLength > 2)
    THEN [err |-> "signalLength is too small", obj |-> FilterHolderDefault]
    ELSE IF Len(filterCoeffs) = 0
    THEN [err |-> "filterCoeffs is empty", obj |-> FilterHolderDefault]
    ELSE [err |-> "none",
          obj |-> [m_signalLength |-> signalLength,
                   m_filterCoeffs |-> filterCoeffs,
                   m_useFastConvolution |-> useFastConvolution,
                   m_fftConvolve |->
                       IF useFastConvolution
                       THEN FftConvolveCtor(signalLength, Len(filterCoeffs)).obj
                       ELSE FftConvolveDefault,
                   m_filteredSignal |-> Zeros(signalLength + Len(filterCoeffs) - 1)]]

\* the offset without the shift: the whole filter delay M - 1
DelayOffsetWhole(obj) == Len(obj.m_filteredSignal) - obj.m_signalLength

\* offset = (m_filteredSignal.size() - m_signalLength) >> 1
DelayOffset(obj) == (Len(obj.m_filteredSignal) - obj.m_signalLength) \div 2

\* the samples written over the front of the buffer w
Overwrite(w, out) == [i \in 1..Len(w) |-> IF i <= Len(out) THEN out[i] ELSE w[i]]

\* FilterHolder::operator(): the object afterwards, what was written to the
\* result range, the indices of m_filteredSignal read for it, and whether
\* the call threw
FilterHolderCall(obj, x, removeDelay, mode) ==
    IF Len(x) # obj.m_signalLength
    THEN [err |-> "signal sample range incorrect", obj |-> obj, out |-> <<>>,
          reads |-> {}]
    ELSE LET fast == FftConvolveCall(obj.m_fftConvolve, x, obj.m_filterCoeffs, mode)
             full == IF obj.m_useFastConvolution THEN fast.out
                     ELSE Convolve(x, obj.m_filterCoeffs)
             obj2 == [obj EXCEPT
                        !.m_fftConvolve =
                            IF obj.m_useFastConvolution THEN fast.obj ELSE @,
                        !.m_filteredSignal = Overwrite(@, full)]
         IN IF obj.m_useFastConvolution /\ fast.err # "none"
            THEN [err |-> fast.err, obj |-> [obj EXCEPT !.m_fftConvolve = fast.obj],
                  out |-> <<>>, reads |-> {}]
            ELSE IF removeDelay
            THEN LET offset == DelayOffset(obj2)
                 IN [err |-> "none", obj |-> obj2,
                     out |-> [i \in 1..Len(x) |-> obj2.m_filteredSignal[offset + i]],
                     reads |-> {offset + i - 1 : i \in 1..Len(x)}]
            ELSE [err |-> "none", obj |-> obj2, out |-> <<>>, reads |-> {}]

\* the second half of FilterHolder::operator() with removeDelay: std::copy
\* of signalLen samples of m_filteredSignal, from the delay offset on
FilterHolderCopyOut(obj, signalLen) ==
    [i \in 1..signalLen |-> obj.m_filteredSignal[DelayOffset(obj) + i]]

(***************************************************************************)
(* dsp_resample.hpp.  A double that is the quotient of two small integers  *)
(* is modelled exactly, as the fraction <<n, d>> with d > 0.               *)
(***************************************************************************)
Abs(v) == IF v < 0 THEN 0 - v ELSE v

RatLess(a, b) == a[1] * b[2] < b[1] * a[2]
RatLeq(a, b) == a[1] * b[2] <= b[1] * a[2]
RatEq(a, b) == a[1] * b[2] = b[1] * a[2]
\* std::min(a, b) and std::max(a, b): a unless b is smaller (greater)
RatMin(a, b) == IF RatLess(b, a) THEN b ELSE a
RatMax(a, b) == IF RatLess(a, b) THEN b ELSE a
\* std::abs(a - b)
RatAbsDiff(a, b) == <<Abs(a[1] * b[2] - b[1] * a[2]), a[2] * b[2]>>
RatHalf(a) == <<a[1], 2 * a[2]>>

\* std::numeric_limits<double>::max(): greater than every difference of two
\* fractions of the model
DblMax == <<1, 0>>

\* static_cast<size_t>(std::floor(r) + 0.5) and
\* static_cast<size_t>(std::ceil(r) + 0.5) of a fraction r >= 0
FloorOf(r) == r[1] \div r[2]
CeilOf(r) == (r[1] + r[2] - 1) \div r[2]

\* a default-constructed Resample
ResampleDefault ==
    [m_signalLength |-> 0, m_upsampleFactor |-> 1, m_downsampleFactor |-> 1,
     m_resampledLength |-> 0, workspaceSize |-> 0,
     filterSignalLength |-> 0, numFilterTaps |-> 0]

\* nothing was handed to FirLowPassFilter
NoDesign == [passed |-> FALSE, cutoffFreqHz |-> <<0, 1>>, samplingFreqHz |-> <<0, 1>>]

\* the length rounded to the nearest integer: floor(N * U / D + 0.5)
ComputeResampledSizeNearest(signalLength, upsampleFactor, downsampleFactor) ==
    (2 * upsampleFactor * signalLength + downsampleFactor) \div (2 * downsampleFactor)

\* static_cast<size_t>(std::floor(double(U * N) / double(D)) + 0.5): the
\* floor is taken before the half is added, and the cast truncates
ComputeResampledSize(signalLength, upsampleFactor, downsampleFactor) ==
    FloorOf(<<2 * FloorOf(<<upsampleFactor * signalLength, downsampleFactor>>) + 1, 2>>)

\* the size ResizeWorkspace gives m_workspaceBuffer
ResizeWorkspace(signalLength, upsampleFactor) ==
    IF upsampleFactor > 1 THEN upsampleFactor * signalLength ELSE signalLength

\* the preconditions of FirLowPassFilter, in the order it checks them
FirLowPassFilterCheck(numTaps, cutoffFreqHz, samplingFreqHz) ==
    IF ~(numTaps > 2) THEN "numTaps too small"
    ELSE IF ~(cutoffFreqHz[1] > 0) THEN "cutoffFreqHz <= 0"
    ELSE IF ~(samplingFreqHz[1] > 0) THEN "samplingFreqHz  <= 0"
    ELSE IF ~RatLeq(cutoffFreqHz, RatHalf(samplingFreqHz)) THEN "cutoffFreqHz too high"
    ELSE "none"

\* the cutoff the constructor hands to FirLowPassFilter
DesignCutoff(upsampleFactor, downsampleFactor, samplingFreqHz, maxCutoffFreqHz) ==
    LET resampledFreqHz == <<samplingFreqHz[1] * upsampleFactor,
                             samplingFreqHz[2] * downsampleFactor>>
        cutoffFreqHz == RatHalf(RatMin(samplingFreqHz, resampledFreqHz))
    IN IF upsampleFactor > downsampleFactor
       THEN RatMin(cutoffFreqHz, maxCutoffFreqHz)
       ELSE RatMax(cutoffFreqHz, maxCutoffFreqHz)

\* Resample(signalLength, upsampleFactor, downsampleFactor, samplingFreqHz,
\* maxCutoffFreqHz, numFilterTaps, ...): the object, what was handed to
\* FirLowPassFilter, and whether the constructor threw.  The values of the
\* filter coefficients are not modelled, only how many there are.
ResampleCtor(signalLength, upsampleFactor, downsampleFactor, samplingFreqHz, maxCutoffFreqHz, numFilterTaps) ==
    IF ~(signalLength > 0)
    THEN [err |-> "too few signal samples", obj |-> ResampleDefault, design |-> NoDesign]
    ELSE IF ~(upsampleFactor > 0)
    THEN [err |-> "invalid upsample factor", obj |-> ResampleDefault, design |-> NoDesign]
    ELSE IF ~(downsampleFactor > 0)
    THEN [err |-> "invalid downsample factor", obj |-> ResampleDefault, design |-> NoDesign]
    ELSE LET upsampleLength == upsampleFactor * signalLength
             upsampledFreqHz == <<samplingFreqHz[1] * upsampleFactor, samplingFreqHz[2]>>
             design == [passed |-> TRUE,
                        cutoffFreqHz |-> DesignCutoff(upsampleFactor, downsampleFactor,
                                                      samplingFreqHz, maxCutoffFreqHz),
                        samplingFreqHz |-> upsampledFreqHz]
             firErr == FirLowPassFilterCheck(numFilterTaps, design.cutoffFreqHz,
                                             upsampledFreqHz)
         IN IF firErr # "none"
            THEN [err |-> firErr, obj |-> ResampleDefault, design |-> design]
            ELSE IF ~(upsampleLength > 2)
            THEN [err |-> "signalLength is too small", obj |-> ResampleDefault,
                  design |-> design]
            ELSE [err |-> "none",
                  obj |-> [m_signalLength |-> signalLength,
                           m_upsampleFactor |-> upsampleFactor,
                           m_downsampleFactor |-> downsampleFactor,
                           m_resampledLength |->
                               ComputeResampledSize(signalLength, upsampleFactor,
                                                    downsampleFactor),
                           workspaceSize |-> ResizeWorkspace(signalLength, upsampleFactor),
                           filterSignalLength |-> upsampleLength,
                           numFilterTaps |-> numFilterTaps],
                  design |-> design]

(***************************************************************************)
(* dsp_resample.hpp: Resample::operator().  The object with its buffers:   *)
(* the filter holder and the workspace buffer.  The values of the low-pass *)
(* coefficients are not computed; the object is built from coefficients    *)
(* handed in.                                                              *)
(***************************************************************************)
\* the members of a Resample after its constructor: ctor is the outcome of
\* ResampleCtor, filterCoeffs what FirLowPassFilter returned
ResampleObject(ctor, filterCoeffs, useFastConvolution) ==
    [m_signalLength |-> ctor.obj.m_signalLength,
     m_upsampleFactor |-> ctor.obj.m_upsampleFactor,
     m_downsampleFactor |-> ctor.obj.m_downsampleFactor,
     m_resampledLength |-> ctor.obj.m_resampledLength,
     m_filterHolder |-> FilterHolderCtor(ctor.obj.filterSignalLength, filterCoeffs,
                                         useFastConvolution).obj,
     m_workspaceBuffer |-> Zeros(ctor.obj.workspaceSize)]

\* the zero-stuffing loop: sample k goes to index k * U, times U
UpsampleFill(ws, x, upsampleFactor) ==
    [i \in 1..Len(ws) |->
        IF (i - 1) % upsampleFactor = 0 /\ ((i - 1) \div upsampleFactor) < Len(x)
        THEN ScalarMul(x[((i - 1) \div upsampleFactor) + 1], FromInt(upsampleFactor))
        ELSE ScalarZero]

\* how many samples a decimation loop writes: one per step of D through the
\* workspace, at most m_resampledLength
DecimateCount(wsLen, downsampleFactor, resampledLength) ==
    Min(resampledLength, (wsLen + downsampleFactor - 1) \div downsampleFactor)

\* the first samples of the workspace, one after the other
DecimateCopyConsecutive(ws, downsampleFactor, resampledLength) ==
    [i \in 1..DecimateCount(Len(ws), downsampleFactor, resampledLength) |-> ws[i]]

\* the decimation loops: result[i] = workspace[i * D]
DecimateCopy(ws, downsampleFactor, resampledLength) ==
    [i \in 1..DecimateCount(Len(ws), downsampleFactor, resampledLength) |->
        ws[(i - 1) * downsampleFactor + 1]]

\* the workspace indices (from 0) the decimation loops read
DecimateReads(wsLen, downsampleFactor, resampledLength) ==
    {(i - 1) * downsampleFactor :
        i \in 1..DecimateCount(wsLen, downsampleFactor, resampledLength)}

\* the part of operator() after the filter holder has run: its output is
\* in the workspace buffer, the result is copied or decimated from it
ResampleFinish(obj, f) ==
    LET ws == Overwrite(obj.m_workspaceBuffer, f.out)
        obj2 == [obj EXCEPT !.m_filterHolder = f.obj, !.m_workspaceBuffer = ws]
    IN IF f.err # "none"
       THEN [err |-> f.err, obj |-> [obj EXCEPT !.m_filterHolder = f.obj], out |-> <<>>]
       ELSE IF obj.m_upsampleFactor > 1 /\ ~(obj.m_downsampleFactor > 1)
       THEN [err |-> "none", obj |-> obj2, out |-> ws]
       ELSE [err |-> "none", obj |-> obj2,
             out |-> DecimateCopy(ws, obj.m_downsampleFactor, obj.m_resampledLength)]

\* what operator() hands to the filter holder: the zero-stuffed workspace
\* when upsampling, the signal itself otherwise
ResampleFilterInput(obj, x) ==
    IF obj.m_upsampleFactor > 1
    THEN UpsampleFill(obj.m_workspaceBuffer, x, obj.m_upsampleFactor)
    ELSE x

\* the object when the filter holder is called: the workspace buffer holds
\* the zero-stuffed signal when upsampling
ResampleLoaded(obj, input) ==
    IF obj.m_upsampleFactor > 1 THEN [obj EXCEPT !.m_workspaceBuffer = input] ELSE obj

\* m_filterHolder(first, last, m_workspaceBuffer.begin(), true) and the copy
\* or decimation that follows it
ResampleFilterCall(obj, input, mode) ==
    CHOOSE r \in {ResampleFinish(obj, f) :
                    f \in {FilterHolderCall(obj.m_filterHolder, input, TRUE, mode)}} : TRUE

\* Resample::operator(): the object afterwards, what was written to the
\* result range, and whether the call threw
ResampleCall(obj, x, mode) ==
    IF Len(x) # obj.m_signalLength
    THEN [err |-> "sample length is incorrect", obj |-> obj, out |-> <<>>]
    ELSE CHOOSE r \in {ResampleFilterCall(ResampleLoaded(obj, input), input, mode) :
                         input \in {ResampleFilterInput(obj, x)}} : TRUE

\* the last step of Resample::operator(): the result is copied or
\* decimated from the workspace buffer as it is now
ResampleCopyOut(obj) ==
    IF obj.m_upsampleFactor > 1 /\ ~(obj.m_downsampleFactor > 1)
    THEN obj.m_workspaceBuffer
    ELSE DecimateCopy(obj.m_workspaceBuffer, obj.m_downsampleFactor, obj.m_resampledLength)

(***************************************************************************)
(* dsp_window_functions.hpp.  The formula of a generator is modelled by an *)
(* integer-valued function of the index and of size - 1; one of them is    *)
(* not symmetric, so that mirroring differs from evaluating.  Coefficients *)
(* and data are integers, gains are fractions <<n, d>>.                    *)
(***************************************************************************)
\* the formulas handed to WindowGenerator as evalCoeff
EvalFuncs == {"index", "parabola", "alternate"}

\* evalCoeff(n, sizeMinusOne)
EvaluateCoefficient(f, n, sizeMinusOne) ==
    IF f = "index" THEN n + 1
    ELSE IF f = "parabola" THEN 1 + n * (sizeMinusOne - n)
    ELSE IF n % 2 = 0 THEN 2 ELSE 0 - 1

\* the generators: RectangleGenerator, and one generator per formula
Generators == {"Rectangle"} \cup EvalFuncs

\* the mirrored coefficient is never written
MirrorWriteNot(w, n, nRev) == w

\* windowCoeffs[nRev] = windowCoeffs[n]
MirrorWrite(w, n, nRev) == [w EXCEPT ![nRev + 1] = w[n + 1]]

RECURSIVE WindowGeneratorLoop(_, _, _, _, _)
\* for (n = 0, nRev = size - 1; n < halfSize; ++n, --nRev): the
\* coefficients, and the indices evalCoeff was called for
WindowGeneratorLoop(w, evals, f, n, nRev) ==
    IF n >= Len(w) \div 2 THEN [coeffs |-> w, evals |-> evals]
    ELSE WindowGeneratorLoop(
             MirrorWrite([w EXCEPT ![n + 1] = EvaluateCoefficient(f, n, Len(w) - 1)],
                         n, nRev),
             Append(evals, n), f, n + 1, nRev - 1)

\* WindowGenerator(windowCoeffs, evalCoeff)
WindowGenerator(w, f) ==
    IF ~(Len(w) > 1) THEN [err |-> "invalid window size", coeffs |-> w, evals |-> <<>>]
    ELSE LET halfSize == Len(w) \div 2
             r == WindowGeneratorLoop(w, <<>>, f, 0, Len(w) - 1)
         IN IF Len(w) % 2 = 1
            THEN [err |-> "none",
                  coeffs |-> [r.coeffs EXCEPT
                                ![halfSize + 1] = EvaluateCoefficient(f, halfSize, Len(w) - 1)],
                  evals |-> Append(r.evals, halfSize)]
            ELSE [err |-> "none", coeffs |-> r.coeffs, evals |-> r.evals]

\* RectangleGenerator::operator()
RectangleGenerator(w) ==
    IF ~(Len(w) > 1) THEN [err |-> "invalid window size", coeffs |-> w, evals |-> <<>>]
    ELSE [err |-> "none", coeffs |-> [i \in 1..Len(w) |-> 1], evals |-> <<>>]

\* generator(m_windowCoefficients)
Generate(generator, w) ==
    IF generator = "Rectangle" THEN RectangleGenerator(w) ELSE WindowGenerator(w, generator)

RECURSIVE SumCoeffs(_, _)
\* m_coherentGain += m_windowCoefficients[i] over i < size
SumCoeffs(w, size) == IF size <= 0 THEN 0 ELSE w[size] + SumCoeffs(w, size - 1)

RECURSIVE SumSquares(_, _)
\* m_enbw += m_windowCoefficients[i] * m_windowCoefficients[i] over i < size
SumSquares(w, size) == IF size <= 0 THEN 0 ELSE w[size] * w[size] + SumSquares(w, size - 1)

\* ComputeGains(): the three gains from the first `size` coefficients
\* (size = EffectiveSize() >= 1); an integer is > 1.e-9 in size iff it is not 0
ComputeGains(w, size) ==
    LET sum == SumCoeffs(w, size)
        squares == SumSquares(w, size)
        enbw == IF sum * sum # 0 THEN <<size * squares, sum * sum>> ELSE <<squares, 1>>
    IN [m_coherentGain |-> <<sum, size>>,
        m_enbw |-> enbw,
        m_powerGain |-> <<sum * sum * enbw[1], size * size * enbw[2]>>]

\* a default-constructed WindowFunction
WindowFunctionDefault ==
    [m_windowCoefficients |-> <<>>, m_ignoreLastValue |-> FALSE, m_effectiveSize |-> 0,
     m_coherentGain |-> <<0, 1>>, m_powerGain |-> <<0, 1>>, m_enbw |-> <<0, 1>>]

\* m_effectiveSize(ignoreLastValue ? m_windowCoefficients.size() - 1
\*                                 : m_windowCoefficients.size())
InitialEffectiveSize(size, ignoreLastValue) ==
    IF ignoreLastValue THEN size - 1 ELSE size

\* WindowFunction(generator, size, ignoreLastValue): the object, the indices
\* the formula was evaluated for, and whether the constructor threw
WindowFunctionCtor(generator, size, ignoreLastValue) ==
    LET g == Generate(generator, [i \in 1..size |-> 1])
        effective == InitialEffectiveSize(size, ignoreLastValue)
        gains == ComputeGains(g.coeffs, effective)
    IN IF g.err # "none"
       THEN [err |-> g.err, obj |-> WindowFunctionDefault, evals |-> <<>>]
       ELSE [err |-> "none",
             obj |-> [m_windowCoefficients |-> g.coeffs,
                      m_ignoreLastValue |-> (ignoreLastValue /\ size % 2 = 1),
                      m_effectiveSize |-> effective,
                      m_coherentGain |-> gains.m_coherentGain,
                      m_powerGain |-> gains.m_powerGain,
                      m_enbw |-> gains.m_enbw],
             evals |-> g.evals]

ActualSize(obj) == Len(obj.m_windowCoefficients)

EffectiveSize(obj) == obj.m_effectiveSize

\* Coefficients(): a copy of the first m_effectiveSize coefficients
Coefficients(obj) ==
    IF Len(obj.m_windowCoefficients) = obj.m_effectiveSize
    THEN obj.m_windowCoefficients
    ELSE SubSeq(obj.m_windowCoefficients, 1, obj.m_effectiveSize)

\* the data and the coefficient added
MultiplyAdd(x, y) == x + y

\* the multiply lambda
Multiply(x, y) == x * y

RECURSIVE TransformLoop(_, _, _, _, _)
\* std::transform(dataFirst, dataLast, coefficients, resultFirst, multiply):
\* element i is read, multiplied and written before element i + 1 is read;
\* with alias the result range is the data range itself
TransformLoop(d, out, w, alias, i) ==
    IF i > Len(d) THEN [data |-> d, out |-> IF alias THEN d ELSE out]
    ELSE TransformLoop(IF alias THEN [d EXCEPT ![i] = Multiply(d[i], w[i])] ELSE d,
                       IF alias THEN out ELSE Append(out, Multiply(d[i], w[i])),
                       w, alias, i + 1)

\* WindowFunction::operator(): what the result range holds afterwards, and
\* whether the call threw
WindowFunctionCall(obj, d, alias) ==
    IF Len(d) # obj.m_effectiveSize THEN [err |-> "invalid data size", out |-> <<>>]
    ELSE [err |-> "none", out |-> TransformLoop(d, <<>>, obj.m_windowCoefficients, alias, 1).out]

(***************************************************************************)
(* dsp_fft.hpp: ToMagnitude and ToPower.  A real value is the record       *)
(* [sign |-> s, sq |-> q] for s * sqrt(q), s in {-1, 0, 1}, so that the    *)
(* square root taken by std::abs is exact; a bin is [re |-> r, im |-> r].  *)
(***************************************************************************)
Sgn(v) == IF v > 0 THEN 1 ELSE IF v < 0 THEN 0 - 1 ELSE 0

\* the real value of an integer
RealOf(v) == [sign |-> Sgn(v), sq |-> v * v]

\* complex_type{re, im} of two integers
Bin(re, im) == [re |-> RealOf(re), im |-> RealOf(im)]

\* *zItr *= two
TimesTwo(z) ==
    [re |-> [sign |-> z.re.sign, sq |-> 4 * z.re.sq],
     im |-> [sign |-> z.im.sign, sq |-> 4 * z.im.sq]]

\* std::abs(z) = sqrt(re^2 + im^2)
StdAbs(z) == [sign |-> Sgn(z.re.sq + z.im.sq), sq |-> z.re.sq + z.im.sq]

\* std::norm(z) = re^2 + im^2
StdNorm(z) == RealOf(z.re.sq + z.im.sq)

\* zItr->real(v); zItr->imag(zero)
RealBin(v) == [re |-> v, im |-> RealOf(0)]

\* halfSize = fullSpectrum ? cplxFft.size() : cplxFft.size() / 2
HalfSize(d, fullSpectrum) == IF fullSpectrum THEN Len(d) ELSE Len(d) \div 2

\* the value ToMagnitude extracts from bin i (counted from 0): every bin
\* but the first is doubled
MagnitudeOfBin(z, i) == IF i # 0 THEN StdAbs(TimesTwo(z)) ELSE StdAbs(z)

\* the power of a doubled bin
PowerOfBinDoubled(z, i) == IF i # 0 THEN StdNorm(TimesTwo(z)) ELSE StdNorm(z)

\* the value ToPower extracts from bin i: no bin is doubled
PowerOfBin(z, i) == StdNorm(z)

\* every bin from halfSize on is zeroed, whatever the flag
ZeroUnusedAlways(d, halfSize, zeroUnused) ==
    [i \in 1..Len(d) |-> IF i > halfSize THEN Bin(0, 0) ELSE d[i]]

\* the second loop of the in-place overloads
ZeroUnused(d, halfSize, zeroUnused) ==
    [i \in 1..Len(d) |-> IF zeroUnused /\ i > halfSize THEN Bin(0, 0) ELSE d[i]]

\* ToMagnitude(cplxFft, zeroUnused, fullSpectrum): the buffer afterwards
ToMagnitude(d, zeroUnused, fullSpectrum) ==
    ZeroUnused([i \in 1..Len(d) |->
                  IF i <= HalfSize(d, fullSpectrum)
                  THEN RealBin(MagnitudeOfBin(d[i], i - 1)) ELSE d[i]],
               HalfSize(d, fullSpectrum), zeroUnused)

\* ToMagnitude(cplxFft, magFft, fullSpectrum): magFft afterwards
ToMagnitudeCopy(d, fullSpectrum) ==
    [i \in 1..HalfSize(d, fullSpectrum) |->
        IF i # 1 THEN StdAbs(TimesTwo(d[i])) ELSE StdAbs(d[i])]

\* ToPower(cplxFft, zeroUnused, fullSpectrum): the buffer afterwards
ToPower(d, zeroUnused, fullSpectrum) ==
    ZeroUnused([i \in 1..Len(d) |->
                  IF i <= HalfSize(d, fullSpectrum)
                  THEN RealBin(PowerOfBin(d[i], i - 1)) ELSE d[i]],
               HalfSize(d, fullSpectrum), zeroUnused)

\* ToPower(cplxFft, powerSpectrum, fullSpectrum): powerSpectrum afterwards
ToPowerCopy(d, fullSpectrum) ==
    [i \in 1..HalfSize(d, fullSpectrum) |-> PowerOfBin(d[i], i - 1)]

(***************************************************************************)
(* dsp_fft.hpp: To3BinSum.  A bin of the power spectrum is an exact        *)
(* scalar; a real value of the result is [root |-> r, v |-> x]: x itself   *)
(* when r is FALSE, std::sqrt(x) * sqrt2 when r is TRUE.                   *)
(***************************************************************************)
PlainValue(x) == [root |-> FALSE, v |-> x]

\* std::sqrt(x) * sqrt2
PeakMagnitude(x) == [root |-> TRUE, v |-> x]

\* a complex bin as its two real values
PlainBin(z) == [re |-> PlainValue(RealPart(z)), im |-> PlainValue(ImagPart(z))]

\* convVec = {one, one, one}
ThreeBinKernel == <<FromInt(1), FromInt(1), FromInt(1)>>

\* std::vector::resize(n): the first elements are kept, new ones are zero
Resize(v, n) == [i \in 1..n |-> IF i <= Len(v) THEN v[i] ELSE PlainValue(ScalarZero)]

\* Convolve(first, first + count, convVec.begin(), convVec.end(), ...):
\* it throws on an empty range 1
ThreeBinConvolve(p) ==
    IF ConvolveAccepts(p, ThreeBinKernel)
    THEN [err |-> "none", res |-> Convolve(p, ThreeBinKernel)]
    ELSE [err |-> "range 1 invalid", res |-> <<>>]

\* To3BinSum(complex_vector& powerSpectrum, zeroUnused, fullSpectrum): the
\* buffer afterwards; only the real part of a processed bin is assigned
To3BinSumInPlaceWith(d, zeroUnused, fullSpectrum, conv) ==
    IF conv.err # "none" THEN [err |-> conv.err, buf |-> [i \in 1..Len(d) |-> PlainBin(d[i])]]
    ELSE [err |-> "none",
          buf |-> [i \in 1..Len(d) |->
                     IF i <= HalfSize(d, fullSpectrum)
                     THEN [re |-> PeakMagnitude(RealPart(conv.res[i + 1])),
                           im |-> PlainValue(ImagPart(d[i]))]
                     ELSE IF zeroUnused THEN PlainBin(ScalarZero)
                     ELSE PlainBin(d[i])]]

To3BinSumInPlace(d, zeroUnused, fullSpectrum) ==
    CHOOSE r \in {To3BinSumInPlaceWith(d, zeroUnused, fullSpectrum, conv) :
                    conv \in {ThreeBinConvolve(SubSeq(d, 1, HalfSize(d, fullSpectrum)))}} : TRUE

\* To3BinSum(real_vector& powerSpectrum): the vector afterwards
To3BinSumRealInPlaceWith(p, conv) ==
    IF conv.err # "none" THEN [err |-> conv.err, buf |-> [i \in 1..Len(p) |-> PlainValue(p[i])]]
    ELSE [err |-> "none", buf |-> [i \in 1..Len(p) |-> PeakMagnitude(conv.res[i + 1])]]

To3BinSumRealInPlace(p) ==
    CHOOSE r \in {To3BinSumRealInPlaceWith(p, conv) : conv \in {ThreeBinConvolve(p)}} : TRUE

\* To3BinSum(complex_vector const& powerSpectrum, magFft, fullSpectrum):
\* magFft afterwards; it is resized before Convolve is called
To3BinSumCopyWith(d, magFft, fullSpectrum, conv) ==
    IF conv.err # "none"
    THEN [err |-> conv.err, magFft |-> Resize(magFft, HalfSize(d, fullSpectrum))]
    ELSE [err |-> "none",
          magFft |-> [i \in 1..HalfSize(d, fullSpectrum) |->
                        PeakMagnitude(RealPart(conv.res[i + 1]))]]

To3BinSumCopy(d, magFft, fullSpectrum) ==
    CHOOSE r \in {To3BinSumCopyWith(d, magFft, fullSpectrum, conv) :
                    conv \in {ThreeBinConvolve(SubSeq(d, 1, HalfSize(d, fullSpectrum)))}} : TRUE

\* std::rotate(first, first + 1, last)
RotateLeft(v) == IF Len(v) = 0 THEN v ELSE Append(Tail(v), Head(v))

\* To3BinSum(real_vector const& powerSpectrum, magFft): magFft afterwards.
\* Convolve writes into magFft, resized to size + 2; then rotate, resize,
\* transform
To3BinSumRealCopyWith(p, magFft, conv) ==
    IF conv.err # "none" THEN [err |-> conv.err, magFft |-> Resize(magFft, Len(p) + 2)]
    ELSE [err |-> "none",
          magFft |-> [i \in 1..Len(p) |-> PeakMagnitude(RotateLeft(conv.res)[i])]]

To3BinSumRealCopy(p, magFft) ==
    CHOOSE r \in {To3BinSumRealCopyWith(p, magFft, conv) : conv \in {ThreeBinConvolve(p)}} : TRUE

(***************************************************************************)
(* Initialise(args) of every class: *this = std::move(Class(args)).         *)
(***************************************************************************)
\* the move assignment leaves the object as it was
MoveAssignNothing(obj, temp) == obj

\* the defaulted operator=(Class&&): every member is assigned from the
\* temporary
MoveAssign(obj, temp) == temp

\* Initialise: the constructor of the temporary runs first; when it throws
\* the assignment is never reached
Initialise(obj, ctor) ==
    IF ctor.err # "none" THEN [err |-> ctor.err, obj |-> obj]
    ELSE [err |-> "none", obj |-> MoveAssign(obj, ctor.obj)]

(***************************************************************************)
(* dsp_fft.hpp: MagnitudeFft and ThreeBinSumFft, operator() on a real      *)
(* signal.  A call is modelled by the element writes it makes, each        *)
(* [buf, index, size]: the buffer, the index written and the size of the   *)
(* buffer at that moment; sample values are left out.                      *)
(***************************************************************************)
\* MagnitudeFft(generator, fftSize) and ThreeBinSumFft(generator, fftSize):
\* the window of fftSize + 1 coefficients and the workspace are built
\* before the body checks fftSize
SpectrumFftCtor(generator, fftSize) ==
    LET w == WindowFunctionCtor(generator, fftSize + 1, TRUE)
    IN IF w.err # "none" THEN [err |-> w.err, obj |-> <<>>]
       ELSE IF ~IsPowerOf2(fftSize) THEN [err |-> "FFT size not a power of 2", obj |-> <<>>]
       ELSE [err |-> "none",
             obj |-> [m_windowFunction |-> w.obj, m_workspace |-> Zeros(fftSize)]]

\* count elements written through the begin iterator of a buffer of the
\* given size
BufferWrites(buf, count, size) ==
    {[buf |-> buf, index |-> i, size |-> size] : i \in 0..(count - 1)}

\* the writes of a call that passed the signal-length check, up to the gain
\* correction: the window writes signalLength products through
\* realSpectra.begin(); std::transform copies realSpectra.size() elements
\* into m_workspace; ToMagnitude or ToPower resizes realSpectra to halfSize
\* and fills it; phases is resized and filled; the gain correction rewrites
\* realSpectra
SpectrumFftWrites(obj, signalLength, spectraSize, fullSpectrum, withPhases) ==
    LET halfSize == HalfSize(obj.m_workspace, fullSpectrum)
    IN BufferWrites("realSpectra", signalLength, spectraSize)
       \cup BufferWrites("m_workspace", spectraSize, Len(obj.m_workspace))
       \cup BufferWrites("realSpectra", halfSize, halfSize)
       \cup (IF withPhases THEN BufferWrites("phases", halfSize, halfSize) ELSE {})

\* operator()(signalFirst, signalLast, realSpectra, fullSpectrum, phases)
\* of either class; ThreeBinSumFft ends with To3BinSum(realSpectra), whose
\* Convolve throws on an empty spectrum
SpectrumFftCall(class, obj, signalLength, spectraSize, fullSpectrum, phases) ==
    LET halfSize == HalfSize(obj.m_workspace, fullSpectrum)
        unchanged == [writes |-> {}, realSpectra |-> spectraSize, phases |-> phases[2]]
        done == [writes |-> SpectrumFftWrites(obj, signalLength, spectraSize, fullSpectrum,
                                              phases[1]),
                 realSpectra |-> halfSize,
                 phases |-> IF phases[1] THEN halfSize ELSE phases[2]]
    IN IF signalLength # Len(obj.m_workspace)
       THEN [err |-> "signal length is incorrect"] @@ unchanged
       ELSE IF signalLength # obj.m_windowFunction.m_effectiveSize
       THEN [err |-> "invalid data size"] @@ unchanged
       ELSE IF class = "ThreeBinSumFft" /\ halfSize = 0
       THEN [err |-> "range 1 invalid"] @@ done
       ELSE [err |-> "none"] @@ done

\* the writes outside the buffer they are made to
OutOfBounds(writes) == {w \in writes : ~(w.index < w.size)}

\* a write outside a buffer is undefined: the call may go on, with the
\* write landing behind the buffer, or the process may stop
UndefinedOutcomes(writes) ==
    IF OutOfBounds(writes) = {} THEN {"continues"} ELSE {"continues", "crashes"}

(***************************************************************************)
(* FIR design functions of dsp_filter.hpp.  Frequencies are fractions; the *)
(* values of the coefficients (sinc and cosine terms) are not modelled,    *)
(* only the validation, the normalised band edges the coefficients are     *)
(* computed from, and how many coefficients come back.                     *)
(***************************************************************************)
RatSub(a, b) == <<a[1] * b[2] - b[1] * a[2], a[2] * b[2]>>
RatAdd(a, b) == <<a[1] * b[2] + b[1] * a[2], a[2] * b[2]>>
\* a / b for b > 0
RatDiv(a, b) == <<a[1] * b[2], a[2] * b[1]>>

\* DSP_ASSERT_THROW failed: the function leaves by exception, nothing returned
FirThrow(msg) == [err |-> msg, numCoeffs |-> 0, cutoffs |-> <<>>]

\* WindowFunction<FloatType> window(windowGenerator, numTaps, false) applied
\* in place to the numTaps coefficients, which are then returned
FirWindowed(numTaps, cutoffs) ==
    LET window == WindowFunctionCtor("Rectangle", numTaps, FALSE)
    IN IF window.err # "none" THEN FirThrow(window.err)
       ELSE IF numTaps # EffectiveSize(window.obj) THEN FirThrow("signal length incorrect")
       ELSE [err |-> "none", numCoeffs |-> ActualSize(window.obj), cutoffs |-> cutoffs]

FirHighPassFilter(numTaps, cutoffFreqHz, samplingFreqHz) ==
    LET availableBandwidthHz == RatHalf(samplingFreqHz)
        isOdd == numTaps % 2 = 1
        normalizedCutoffFreq == RatDiv(cutoffFreqHz, availableBandwidthHz)
    IN IF ~(numTaps > 2) THEN FirThrow("numTaps too small")
       ELSE IF ~(cutoffFreqHz[1] > 0) THEN FirThrow("cutoffFreqHz <= 0")
       ELSE IF ~(samplingFreqHz[1] > 0) THEN FirThrow("samplingFreqHz  <= 0")
       ELSE IF ~RatLeq(cutoffFreqHz, availableBandwidthHz) THEN FirThrow("cutoffFreqHz too high")
       ELSE IF ~isOdd THEN FirThrow("numTaps should be an odd number for high pass filter")
       ELSE FirWindowed(numTaps, <<normalizedCutoffFreq>>)

\* the checks FirBandPassFilter and FirNotchFilter share, in source order
FirBandCheck(numTaps, centreFreqHz, bandwidthHz, samplingFreqHz) ==
    LET availableBandwidthHz == RatHalf(samplingFreqHz)
    IN IF ~(numTaps > 2) THEN "numTaps too small"
       ELSE IF ~(centreFreqHz[1] > 0) THEN "cutoffFreqHz <= 0"
       ELSE IF ~(samplingFreqHz[1] > 0) THEN "samplingFreqHz  <= 0"
       ELSE IF ~RatLeq(centreFreqHz, availableBandwidthHz) THEN "cutoffFreqHz too high"
       ELSE IF ~(bandwidthHz[1] > 0) THEN "bandwidthHz  <= 0"
       ELSE IF ~RatLeq(bandwidthHz, availableBandwidthHz) THEN "bandwidthHz too high"
       ELSE "none"

\* normalizedLowCutoffFreq and normalizeHighCutoffFreq
FirBandEdges(centreFreqHz, bandwidthHz, samplingFreqHz) ==
    LET availableBandwidthHz == RatHalf(samplingFreqHz)
        normalizedCentreFreq == RatDiv(centreFreqHz, availableBandwidthHz)
        normalizedBandwidth == RatDiv(bandwidthHz, availableBandwidthHz)
    IN <<RatSub(normalizedCentreFreq, RatHalf(normalizedBandwidth)),
         RatAdd(normalizedCentreFreq, RatHalf(normalizedBandwidth))>>

FirBandPassFilter(numTaps, centreFreqHz, bandwidthHz, samplingFreqHz) ==
    LET check == FirBandCheck(numTaps, centreFreqHz, bandwidthHz, samplingFreqHz)
    IN IF check # "none" THEN FirThrow(check)
       ELSE FirWindowed(numTaps, FirBandEdges(centreFreqHz, bandwidthHz, samplingFreqHz))

FirNotchFilter(numTaps, centreFreqHz, bandwidthHz, samplingFreqHz) ==
    LET check == FirBandCheck(numTaps, centreFreqHz, bandwidthHz, samplingFreqHz)
    IN IF check # "none" THEN FirThrow(check)
       ELSE FirWindowed(numTaps, FirBandEdges(centreFreqHz, bandwidthHz, samplingFreqHz))

(***************************************************************************)
(* Idle components: a specification exercises one component and leaves    *)
(* the others in these states.                                             *)
(***************************************************************************)
ConvIdle == x1 = <<>> /\ x2 = <<>> /\ result = <<>> /\ reads = {} /\ cpc = "idle"
GcdIdle == ga = 0 /\ gb = 0 /\ gret = 0 /\ gdepth = 0 /\ gpc = "idle"
FftIdle == data = <<>> /\ data0 = <<>> /\ fcalls = <<>> /\ ferr = "none"
FcIdle ==
    /\ fcArgs = <<0, 0>> /\ fc = FftConvolveDefault /\ fcSig = <<>> /\ fcKer = <<>>
    /\ fcOut = <<>> /\ fcErr = "none" /\ fcpc = "idle"
FhIdle ==
    /\ fhArgs = <<0, <<>>, TRUE>> /\ fh = FilterHolderDefault /\ fhSig = <<>>
    /\ fhRemove = FALSE /\ fhOut = <<>> /\ fhReads = {} /\ fhErr = "none"
    /\ fhpc = "idle"

CrfIdle ==
    /\ requiredResampleFactor = <<0, 1>> /\ maxNumerator = 0 /\ maxDenominator = 0
    /\ n_a = 0 /\ d_a = 0 /\ n_b = 0 /\ d_b = 0 /\ n_m = 0 /\ d_m = 0
    /\ error = DblMax /\ factors = <<0, 0>> /\ crfpc = "idle"
RsIdle ==
    /\ rsArgs = <<0, 0, 0, 0, 0, 0>> /\ rs = ResampleDefault /\ rsDesign = NoDesign
    /\ rsSize = 0 /\ rsErr = "none" /\ rspc = "idle"

WfIdle ==
    /\ wfArgs = <<"Rectangle", 0, FALSE>> /\ wf = WindowFunctionDefault
    /\ wfEvals = <<>> /\ wfErr = "none" /\ wfQuery = <<0, 0, <<>>>>
    /\ wfData = <<>> /\ wfAlias = FALSE /\ wfOut = <<>> /\ wfpc = "idle"

SpIdle ==
    /\ spData0 = <<>> /\ spData = <<>> /\ spOut = <<>>
    /\ spCall = <<"none", FALSE, FALSE>> /\ sppc = "idle"

FirIdle ==
    /\ firCall = <<"none", 0, 0, 0, 0>> /\ firRet = FirThrow("none") /\ firpc = "idle"

ObjIdle ==
    /\ objKind = "none" /\ objArgs = <<>> /\ object = <<>> /\ objIn = <<>> /\ objOut = <<>>
    /\ objErr = "none" /\ objCalls = 0

CcIdle == ccKind = "none" /\ ccArgs = <<>> /\ ccObjs = <<>> /\ ccThreads = <<>>

TbIdle ==
    /\ tbIn = <<>> /\ tbMag0 = <<>> /\ tbBuf = <<>> /\ tbMag = <<>>
    /\ tbCall = <<"none", FALSE, FALSE>> /\ tbErr = "none" /\ tbpc = "idle"

IniIdle ==
    /\ iniCount = 0 /\ iniArgs = <<>> /\ iniPrev = <<>> /\ iniErr = "none" /\ iniCalls = 0

MfIdle ==
    /\ mfKind = "none" /\ mfft = <<>> /\ mfCall = <<>> /\ mfWrites = {}
    /\ mfSpectra = 0 /\ mfPhases = 0 /\ mfErr = "none" /\ mfpc = "idle"

(***************************************************************************)
(* Inputs.                                                                 *)
(***************************************************************************)
SampleInts == {0 - 1, 1, 2}

\* the sequences over S of the lengths 0..n
SeqsUpTo(S, n) == UNION {[1..m -> S] : m \in 0..n}

Ones(n) == [i \in 1..n |-> 1]
Ramp(n) == [i \in 1..n |-> i]

ToScalars(s) == [i \in 1..Len(s) |-> FromInt(s[i])]

\* the ranges handed to Convolve: every short range, and those of the tests
ConvolveInputs == SeqsUpTo(SampleInts, MaxLen)

ConvolveTestPairs == {<<Ones(6), Ones(6)>>, <<Ramp(10), Ones(3)>>, <<Ones(3), Ramp(10)>>}

(***************************************************************************)
(* Specification of Convolve.                                              *)
(***************************************************************************)
ConvolveInit ==
    /\ \/ (x1 \in ConvolveInputs /\ x2 \in ConvolveInputs)
       \/ (\E p \in ConvolveTestPairs : x1 = p[1] /\ x2 = p[2])
    /\ result = <<>> /\ reads = {} /\ cpc = "ready"
    /\ GcdIdle /\ FftIdle /\ FcIdle /\ FhIdle /\ CrfIdle /\ RsIdle /\ WfIdle /\ SpIdle /\ FirIdle /\ ObjIdle /\ CcIdle /\ TbIdle /\ IniIdle /\ MfIdle

\* one call of Convolve on the two ranges
CallConvolve ==
    /\ cpc = "ready"
    /\ IF ConvolveAccepts(ToScalars(x1), ToScalars(x2))
       THEN /\ result' = Convolve(ToScalars(x1), ToScalars(x2))
            /\ reads' = ConvolveReads(Len(x1), Len(x2))
            /\ cpc' = "returned"
       ELSE /\ result' = result
            /\ reads' = reads
            /\ cpc' = "threw"
    /\ UNCHANGED <<x1, x2, ExceptConv>>

ConvolveNext == CallConvolve

SpecConvolve == ConvolveInit /\ [][ConvolveNext]_vars

(***************************************************************************)
(* Specification of Gcd.                                                   *)
(***************************************************************************)
GcdTestPairs == {<<48, 36>>, <<2680, 496>>}

GcdInit ==
    /\ \/ (ga \in 0..MaxGcdArg /\ gb \in 0..MaxGcdArg)
       \/ (\E p \in GcdTestPairs : ga = p[1] /\ gb = p[2])
    /\ gret = 0 /\ gdepth = 0 /\ gpc = "ready"
    /\ ConvIdle /\ FftIdle /\ FcIdle /\ FhIdle /\ CrfIdle /\ RsIdle /\ WfIdle /\ SpIdle /\ FirIdle /\ ObjIdle /\ CcIdle /\ TbIdle /\ IniIdle /\ MfIdle

CallGcd ==
    /\ gpc = "ready"
    /\ gret' = Gcd(ga, gb)
    /\ gdepth' = GcdDepth(ga, gb)
    /\ gpc' = "returned"
    /\ UNCHANGED <<ga, gb, ExceptGcd>>

GcdNext == CallGcd

SpecGcd == GcdInit /\ [][GcdNext]_vars

(***************************************************************************)
(* Specification of ComplexFFT: up to two calls on one buffer.             *)
(***************************************************************************)
SampleCplx == {ScalarZero, Cplx(1, 0), Cplx(0, 1), Cplx(2, 0 - 1)}

\* the buffers of length n whose bins are zero but for one bin or two
\* neighbouring bins (the last and the first are neighbours)
SparseBuffers(n) ==
    {[i \in 1..n |-> IF i = p THEN u ELSE IF i = (p % n) + 1 THEN v ELSE ScalarZero] :
        p \in 1..n, u \in SampleCplx, v \in SampleCplx}

\* the buffer of length n with the bins 1 + 0i, 2 - i, 3 - 2i, ...
RampBuffer(n) == [i \in 1..n |-> Cplx(i, 1 - i)]

FftInputs == UNION {SparseBuffers(n) \cup {RampBuffer(n)} : n \in 0..RingDim}

FftInit ==
    /\ data0 \in FftInputs
    /\ data = data0
    /\ fcalls = <<>>
    /\ ferr = "none"
    /\ ConvIdle /\ GcdIdle /\ FcIdle /\ FhIdle /\ CrfIdle /\ RsIdle /\ WfIdle /\ SpIdle /\ FirIdle /\ ObjIdle /\ CcIdle /\ TbIdle /\ IniIdle /\ MfIdle

CallForward ==
    /\ Len(fcalls) < 2
    /\ \E mode \in ShiftModes :
         \E r \in {Forward(data, mode)} : data' = r.data /\ ferr' = r.err
    /\ fcalls' = Append(fcalls, "Forward")
    /\ UNCHANGED <<data0, ExceptFft>>

CallInverse ==
    /\ Len(fcalls) < 2
    /\ \E mode \in ShiftModes :
         \E r \in {Inverse(data, mode)} : data' = r.data /\ ferr' = r.err
    /\ fcalls' = Append(fcalls, "Inverse")
    /\ UNCHANGED <<data0, ExceptFft>>

FftNext == CallForward \/ CallInverse

SpecFft == FftInit /\ [][FftNext]_vars

(***************************************************************************)
(* Specification of FftConvolve: an object constructed for a signal and a *)
(* kernel length, then called once.                                        *)
(***************************************************************************)
Impulse(n, p) == [i \in 1..n |-> IF i = p THEN 1 ELSE 0]
Alternating(n) == [i \in 1..n |-> IF i % 2 = 1 THEN 2 ELSE 0 - 1]

\* the real signals (and kernels) of length n that the calls are made with
TestSignals(n) == {Impulse(n, p) : p \in 1..n} \cup {Ramp(n), Alternating(n)}

\* the signals a caller hands to an object constructed for length n: those
\* of length n, and one of every other length up to one more than maxLen
CallSignals(n, maxLen) == TestSignals(n) \cup {Ramp(m) : m \in 0..(maxLen + 1)}

FcInit ==
    /\ \E sl \in 0..MaxSig, kl \in 0..MaxKer :
         /\ WorkspaceLength(Max(sl + kl - 1, 1)) <= RingDim
         /\ fcArgs = <<sl, kl>>
         /\ fc = FftConvolveCtor(sl, kl).obj
         /\ fcErr = FftConvolveCtor(sl, kl).err
         /\ fcpc = IF FftConvolveCtor(sl, kl).err = "none" THEN "constructed"
                   ELSE "ctor threw"
    /\ fcSig = <<>> /\ fcKer = <<>> /\ fcOut = <<>>
    /\ ConvIdle /\ GcdIdle /\ FftIdle /\ FhIdle /\ CrfIdle /\ RsIdle /\ WfIdle /\ SpIdle /\ FirIdle /\ ObjIdle /\ CcIdle /\ TbIdle /\ IniIdle /\ MfIdle

\* one call of the object on a signal and a kernel
CallFftConvolve ==
    /\ fcpc = "constructed"
    /\ \E x \in CallSignals(fcArgs[1], MaxSig), h \in CallSignals(fcArgs[2], MaxKer),
          mode \in ShiftModes :
         \E r \in {FftConvolveCall(fc, ToScalars(x), ToScalars(h), mode)} :
            /\ fcSig' = x
            /\ fcKer' = h
            /\ fc' = r.obj
            /\ fcOut' = r.out
            /\ fcErr' = r.err
            /\ fcpc' = IF r.err = "none" THEN "returned" ELSE "threw"
    /\ UNCHANGED <<fcArgs, ExceptFc>>

FcNext == CallFftConvolve

SpecFftConvolve == FcInit /\ [][FcNext]_vars

(***************************************************************************)
(* Specification of FilterHolder: an object constructed for a signal      *)
(* length and a set of coefficients, then called once.                     *)
(***************************************************************************)
TestCoeffs == UNION {TestSignals(m) : m \in 1..MaxKer} \cup {<<>>}

FhInit ==
    /\ \E sl \in 0..MaxSig, coeffs \in TestCoeffs, fast \in BOOLEAN :
         /\ WorkspaceLength(Max(sl + Len(coeffs) - 1, 1)) <= RingDim
         /\ fhArgs = <<sl, coeffs, fast>>
         /\ fh = FilterHolderCtor(sl, ToScalars(coeffs), fast).obj
         /\ fhErr = FilterHolderCtor(sl, ToScalars(coeffs), fast).err
         /\ fhpc = IF FilterHolderCtor(sl, ToScalars(coeffs), fast).err = "none"
                   THEN "constructed" ELSE "ctor threw"
    /\ fhSig = <<>> /\ fhRemove = FALSE /\ fhOut = <<>> /\ fhReads = {}
    /\ ConvIdle /\ GcdIdle /\ FftIdle /\ FcIdle /\ CrfIdle /\ RsIdle /\ WfIdle /\ SpIdle /\ FirIdle /\ ObjIdle /\ CcIdle /\ TbIdle /\ IniIdle /\ MfIdle

\* one call of the object on a signal
CallFilterHolder ==
    /\ fhpc = "constructed"
    /\ \E x \in CallSignals(fhArgs[1], MaxSig), removeDelay \in BOOLEAN,
          mode \in ShiftModes :
         \E r \in {FilterHolderCall(fh, ToScalars(x), removeDelay, mode)} :
            /\ fhSig' = x
            /\ fhRemove' = removeDelay
            /\ fh' = r.obj
            /\ fhOut' = r.out
            /\ fhReads' = r.reads
            /\ fhErr' = r.err
            /\ fhpc' = IF r.err = "none" THEN "returned" ELSE "threw"
    /\ UNCHANGED <<fhArgs, ExceptFh>>

FhNext == CallFilterHolder

SpecFilterHolder == FhInit /\ [][FhNext]_vars

(***************************************************************************)
(* Specification of ComputeResampleFactors, one step per half of an        *)
(* iteration of its loop.                                                  *)
(***************************************************************************)
CrfInit ==
    /\ \E p \in 0..MaxRatioTerm, q \in 1..MaxRatioTerm : requiredResampleFactor = <<p, q>>
    /\ maxNumerator \in 1..MaxFactor
    /\ maxDenominator \in 1..MaxFactor
    /\ n_a = 0 /\ d_a = 0 /\ n_b = 0 /\ d_b = 0 /\ n_m = 0 /\ d_m = 0
    /\ error = DblMax /\ factors = <<0, 0>> /\ crfpc = "ready"
    /\ ConvIdle /\ GcdIdle /\ FftIdle /\ FcIdle /\ FhIdle /\ RsIdle /\ WfIdle /\ SpIdle /\ FirIdle /\ ObjIdle /\ CcIdle /\ TbIdle /\ IniIdle /\ MfIdle

\* the precondition and the initialisation of the locals
CrfEnter ==
    /\ crfpc = "ready"
    /\ IF ~(requiredResampleFactor[1] > 0)
       THEN /\ crfpc' = "threw"
            /\ UNCHANGED <<n_a, d_a, n_b, d_b, error, factors>>
       ELSE /\ factors' = <<0, 0>>
            /\ n_a' = FloorOf(requiredResampleFactor)
            /\ d_a' = 1
            /\ n_b' = CeilOf(requiredResampleFactor)
            /\ d_b' = 1
            /\ error' = DblMax
            /\ crfpc' = "loop"
    /\ UNCHANGED <<requiredResampleFactor, maxNumerator, maxDenominator, n_m, d_m,
                   ExceptCrf>>

\* the first half of an iteration: the reduced mediant, and the break
CrfMediant ==
    /\ crfpc = "loop"
    /\ \E g \in {Gcd(n_a + n_b, d_a + d_b)} :
         \E n \in {IF g > 1 THEN (n_a + n_b) \div g ELSE n_a + n_b},
            d \in {IF g > 1 THEN (d_a + d_b) \div g ELSE d_a + d_b} :
            /\ n_m' = n
            /\ d_m' = d
            /\ crfpc' = IF (n > maxNumerator) \/ (d > maxDenominator)
                        THEN "returned" ELSE "compare"
    /\ UNCHANGED <<requiredResampleFactor, maxNumerator, maxDenominator,
                   n_a, d_a, n_b, d_b, error, factors, ExceptCrf>>

\* the second half: keep the mediant if it is closer, and move one bracket
CrfUpdate ==
    /\ crfpc = "compare"
    /\ \E absDiff \in {RatAbsDiff(<<n_m, d_m>>, requiredResampleFactor)} :
         IF RatLess(absDiff, error)
         THEN error' = absDiff /\ factors' = <<n_m, d_m>>
         ELSE UNCHANGED <<error, factors>>
    /\ IF RatLeq(<<n_m, d_m>>, requiredResampleFactor)
       THEN n_a' = n_m /\ d_a' = d_m /\ UNCHANGED <<n_b, d_b>>
       ELSE n_b' = n_m /\ d_b' = d_m /\ UNCHANGED <<n_a, d_a>>
    /\ crfpc' = "loop"
    /\ UNCHANGED <<requiredResampleFactor, maxNumerator, maxDenominator, n_m, d_m,
                   ExceptCrf>>

CrfNext == CrfEnter \/ CrfMediant \/ CrfUpdate

SpecCrf == CrfInit /\ [][CrfNext]_vars

\* the function keeps running while it can
SpecCrfFair == CrfInit /\ [][CrfNext]_vars /\ WF_vars(CrfNext)

(***************************************************************************)
(* Specification of Resample: an object is constructed, then asked its     *)
(* resampled size.                                                         *)
(***************************************************************************)
RsInit ==
    /\ rsArgs \in (0..MaxResampleLen) \X (0..MaxRate) \X (0..MaxRate)
                   \X (0..MaxFreq) \X (0..MaxFreq) \X (2..MaxTaps)
    /\ rs = ResampleDefault /\ rsDesign = NoDesign
    /\ rsSize = 0 /\ rsErr = "none" /\ rspc = "ready"
    /\ ConvIdle /\ GcdIdle /\ FftIdle /\ FcIdle /\ FhIdle /\ CrfIdle /\ WfIdle /\ SpIdle /\ FirIdle /\ ObjIdle /\ CcIdle /\ TbIdle /\ IniIdle /\ MfIdle

ConstructResample ==
    /\ rspc = "ready"
    /\ \E r \in {ResampleCtor(rsArgs[1], rsArgs[2], rsArgs[3], <<rsArgs[4], 1>>,
                               <<rsArgs[5], 1>>, rsArgs[6])} :
         /\ rs' = r.obj
         /\ rsDesign' = r.design
         /\ rsErr' = r.err
         /\ rspc' = IF r.err = "none" THEN "constructed" ELSE "ctor threw"
    /\ UNCHANGED <<rsArgs, rsSize, ExceptRs>>

\* ResampledSize()
CallResampledSize ==
    /\ rspc = "constructed"
    /\ rsSize' = rs.m_resampledLength
    /\ rspc' = "sized"
    /\ UNCHANGED <<rsArgs, rs, rsDesign, rsErr, ExceptRs>>

RsNext == ConstructResample \/ CallResampledSize

SpecResample == RsInit /\ [][RsNext]_vars

(***************************************************************************)
(* Specification of WindowFunction: an object is constructed, asked its    *)
(* sizes and coefficients, and applied to a range once.                    *)
(***************************************************************************)
WfInit ==
    /\ \E g \in Generators, size \in 0..MaxWin, ignoreLastValue \in BOOLEAN :
         wfArgs = <<g, size, ignoreLastValue>>
    /\ wf = WindowFunctionDefault
    /\ wfEvals = <<>> /\ wfErr = "none" /\ wfQuery = <<0, 0, <<>>>>
    /\ wfData = <<>> /\ wfAlias = FALSE /\ wfOut = <<>> /\ wfpc = "ready"
    /\ ConvIdle /\ GcdIdle /\ FftIdle /\ FcIdle /\ FhIdle /\ CrfIdle /\ RsIdle /\ SpIdle /\ FirIdle /\ ObjIdle /\ CcIdle /\ TbIdle /\ IniIdle /\ MfIdle

ConstructWindow ==
    /\ wfpc = "ready"
    /\ \E r \in {WindowFunctionCtor(wfArgs[1], wfArgs[2], wfArgs[3])} :
         /\ wf' = r.obj
         /\ wfEvals' = r.evals
         /\ wfErr' = r.err
         /\ wfpc' = IF r.err = "none" THEN "constructed" ELSE "ctor threw"
    /\ UNCHANGED <<wfArgs, wfQuery, wfData, wfAlias, wfOut, ExceptWf>>

\* ActualSize(), EffectiveSize() and Coefficients()
QueryWindow ==
    /\ wfpc = "constructed"
    /\ wfQuery' = <<ActualSize(wf), EffectiveSize(wf), Coefficients(wf)>>
    /\ wfpc' = "queried"
    /\ UNCHANGED <<wfArgs, wf, wfEvals, wfErr, wfData, wfAlias, wfOut, ExceptWf>>

\* the ranges the window is applied to: of every length up to one more than
\* the largest window
WindowData == {Ones(n) : n \in 0..(MaxWin + 1)} \cup {Ramp(n) : n \in 0..(MaxWin + 1)}
                  \cup {Alternating(n) : n \in 0..(MaxWin + 1)}

\* operator()(dataFirst, dataLast, resultFirst), resultFirst being dataFirst
\* or another range
ApplyWindow ==
    /\ wfpc = "queried"
    /\ \E d \in WindowData, alias \in BOOLEAN :
         \E r \in {WindowFunctionCall(wf, d, alias)} :
            /\ wfData' = d
            /\ wfAlias' = alias
            /\ wfOut' = r.out
            /\ wfErr' = r.err
            /\ wfpc' = IF r.err = "none" THEN "applied" ELSE "call threw"
    /\ UNCHANGED <<wfArgs, wf, wfEvals, wfQuery, ExceptWf>>

WfNext == ConstructWindow \/ QueryWindow \/ ApplyWindow

SpecWindow == WfInit /\ [][WfNext]_vars

(***************************************************************************)
(* Specification of ToMagnitude and ToPower: one call on a buffer.         *)
(***************************************************************************)
SampleBins == {Bin(0, 0), Bin(3, 0 - 4), Bin(0 - 1, 1)}

SpInit ==
    /\ spData0 \in SeqsUpTo(SampleBins, MaxBins)
    /\ spData = spData0
    /\ spOut = <<>>
    /\ spCall = <<"none", FALSE, FALSE>>
    /\ sppc = "ready"
    /\ ConvIdle /\ GcdIdle /\ FftIdle /\ FcIdle /\ FhIdle /\ CrfIdle /\ RsIdle /\ WfIdle /\ FirIdle /\ ObjIdle /\ CcIdle /\ TbIdle /\ IniIdle /\ MfIdle

CallToMagnitude ==
    /\ sppc = "ready"
    /\ \E zeroUnused \in BOOLEAN, fullSpectrum \in BOOLEAN :
         /\ spData' = ToMagnitude(spData, zeroUnused, fullSpectrum)
         /\ spCall' = <<"ToMagnitude", zeroUnused, fullSpectrum>>
    /\ sppc' = "returned"
    /\ UNCHANGED <<spData0, spOut, ExceptSp>>

CallToMagnitudeCopy ==
    /\ sppc = "ready"
    /\ \E fullSpectrum \in BOOLEAN :
         /\ spOut' = ToMagnitudeCopy(spData, fullSpectrum)
         /\ spCall' = <<"ToMagnitudeCopy", FALSE, fullSpectrum>>
    /\ sppc' = "returned"
    /\ UNCHANGED <<spData0, spData, ExceptSp>>

CallToPower ==
    /\ sppc = "ready"
    /\ \E zeroUnused \in BOOLEAN, fullSpectrum \in BOOLEAN :
         /\ spData' = ToPower(spData, zeroUnused, fullSpectrum)
         /\ spCall' = <<"ToPower", zeroUnused, fullSpectrum>>
    /\ sppc' = "returned"
    /\ UNCHANGED <<spData0, spOut, ExceptSp>>

CallToPowerCopy ==
    /\ sppc = "ready"
    /\ \E fullSpectrum \in BOOLEAN :
         /\ spOut' = ToPowerCopy(spData, fullSpectrum)
         /\ spCall' = <<"ToPowerCopy", FALSE, fullSpectrum>>
    /\ sppc' = "returned"
    /\ UNCHANGED <<spData0, spData, ExceptSp>>

SpNext == CallToMagnitude \/ CallToMagnitudeCopy \/ CallToPower \/ CallToPowerCopy

SpecSpectrum == SpInit /\ [][SpNext]_vars

(***************************************************************************)
(* Specification of the FIR design functions: one call.                    *)
(***************************************************************************)
FirFreqs == 0..MaxFirFreq

FirInit ==
    /\ firCall = <<"none", 0, 0, 0, 0>>
    /\ firRet = FirThrow("none")
    /\ firpc = "ready"
    /\ ConvIdle /\ GcdIdle /\ FftIdle /\ FcIdle /\ FhIdle /\ CrfIdle /\ RsIdle /\ WfIdle /\ SpIdle /\ ObjIdle /\ CcIdle /\ TbIdle /\ IniIdle /\ MfIdle

FirDone(ret) == IF ret.err = "none" THEN "returned" ELSE "threw"

CallFirHighPassFilter ==
    /\ firpc = "ready"
    /\ \E numTaps \in 0..MaxFirTaps, cutoffFreqHz \in FirFreqs, samplingFreqHz \in FirFreqs :
         \E ret \in {FirHighPassFilter(numTaps, <<cutoffFreqHz, 1>>, <<samplingFreqHz, 1>>)} :
            /\ firCall' = <<"FirHighPassFilter", numTaps, cutoffFreqHz, 0, samplingFreqHz>>
            /\ firRet' = ret
            /\ firpc' = FirDone(ret)
    /\ UNCHANGED ExceptFir

CallFirBandPassFilter ==
    /\ firpc = "ready"
    /\ \E numTaps \in 0..MaxFirTaps, centreFreqHz \in FirFreqs, bandwidthHz \in FirFreqs,
          samplingFreqHz \in FirFreqs :
         \E ret \in {FirBandPassFilter(numTaps, <<centreFreqHz, 1>>, <<bandwidthHz, 1>>,
                                       <<samplingFreqHz, 1>>)} :
            /\ firCall' = <<"FirBandPassFilter", numTaps, centreFreqHz, bandwidthHz, samplingFreqHz>>
            /\ firRet' = ret
            /\ firpc' = FirDone(ret)
    /\ UNCHANGED ExceptFir

CallFirNotchFilter ==
    /\ firpc = "ready"
    /\ \E numTaps \in 0..MaxFirTaps, centreFreqHz \in FirFreqs, bandwidthHz \in FirFreqs,
          samplingFreqHz \in FirFreqs :
         \E ret \in {FirNotchFilter(numTaps, <<centreFreqHz, 1>>, <<bandwidthHz, 1>>,
                                    <<samplingFreqHz, 1>>)} :
            /\ firCall' = <<"FirNotchFilter", numTaps, centreFreqHz, bandwidthHz, samplingFreqHz>>
            /\ firRet' = ret
            /\ firpc' = FirDone(ret)
    /\ UNCHANGED ExceptFir

FirNext == CallFirHighPassFilter \/ CallFirBandPassFilter \/ CallFirNotchFilter

SpecFir == FirInit /\ [][FirNext]_vars

(***************************************************************************)
(* Specification of repeated use: an FftConvolve, a FilterHolder or a      *)
(* Resample is constructed and then invoked up to MaxCalls times, with     *)
(* signals of the right and of the wrong length.                           *)
(***************************************************************************)
\* coefficients standing for what FirLowPassFilter returns for numTaps taps
LowPassCoeffs(numTaps) == {Ones(numTaps), [i \in 1..numTaps |-> IF 2 * i = numTaps + 1 THEN 2 ELSE 1]}

\* the signals handed to an object constructed for length n
ObjSignals(n) == {Ramp(n), Alternating(n), Ramp(n + 1)}

ObjClasses == {"FftConvolve", "FilterHolder", "Resample"}

\* the constructor arguments of each class
ObjCtorArgs(class) ==
    CASE class = "FftConvolve" -> (1..MaxSig) \X (1..MaxKer)
      [] class = "FilterHolder" -> (1..MaxSig) \X {Ramp(m) : m \in 1..MaxKer} \X BOOLEAN
      [] class = "Resample" ->
           (1..MaxResampleLen) \X (1..MaxRate) \X (1..MaxRate) \X {MaxFreq} \X {1}
               \X LowPassCoeffs(MaxTaps) \X BOOLEAN

\* the convolution length of the object the arguments ask for
ObjConvLength(class, args) ==
    CASE class = "FftConvolve" -> args[1] + args[2] - 1
      [] class = "FilterHolder" -> args[1] + Len(args[2]) - 1
      [] class = "Resample" -> args[1] * args[2] + Len(args[6]) - 1

\* the constructor call
ObjConstruct(class, args) ==
    CASE class = "FftConvolve" -> FftConvolveCtor(args[1], args[2])
      [] class = "FilterHolder" -> FilterHolderCtor(args[1], ToScalars(args[2]), args[3])
      [] class = "Resample" ->
           LET ctor == ResampleCtor(args[1], args[2], args[3], <<args[4], 1>>, <<args[5], 1>>,
                                    Len(args[6]))
           IN [err |-> ctor.err, obj |-> ResampleObject(ctor, ToScalars(args[6]), args[7])]
      [] class = "WindowFunction" -> WindowFunctionCtor(args[1], args[2], args[3])
      [] class \in {"MagnitudeFft", "ThreeBinSumFft"} -> SpectrumFftCtor(args[1], args[2])

ObjInit ==
    /\ objKind \in ObjClasses
    /\ objArgs \in ObjCtorArgs(objKind)
    /\ ObjConvLength(objKind, objArgs) <= MaxObjConv
    /\ WorkspaceLength(ObjConvLength(objKind, objArgs)) <= RingDim
    /\ ObjConstruct(objKind, objArgs).err = "none"
    /\ object = ObjConstruct(objKind, objArgs).obj
    /\ objIn = <<>> /\ objOut = <<>> /\ objErr = "none" /\ objCalls = 0
    /\ ConvIdle /\ GcdIdle /\ FftIdle /\ FcIdle /\ FhIdle /\ CrfIdle /\ RsIdle /\ WfIdle /\ SpIdle /\ FirIdle /\ CcIdle /\ TbIdle /\ IniIdle /\ MfIdle

InvokeFftConvolve ==
    /\ objKind = "FftConvolve" /\ objCalls < MaxCalls
    /\ \E x \in ObjSignals(objArgs[1]), h \in {Ramp(objArgs[2]), Ramp(objArgs[2] + 1)},
          mode \in ShiftModes :
         \E r \in {FftConvolveCall(object, ToScalars(x), ToScalars(h), mode)} :
            /\ objIn' = <<x, h>>
            /\ object' = r.obj /\ objOut' = r.out /\ objErr' = r.err
    /\ objCalls' = objCalls + 1
    /\ UNCHANGED <<objKind, objArgs, ExceptObj>>

InvokeFilterHolder ==
    /\ objKind = "FilterHolder" /\ objCalls < MaxCalls
    /\ \E x \in ObjSignals(objArgs[1]), removeDelay \in BOOLEAN, mode \in ShiftModes :
         \E r \in {FilterHolderCall(object, ToScalars(x), removeDelay, mode)} :
            /\ objIn' = <<x, removeDelay>>
            /\ object' = r.obj /\ objOut' = r.out /\ objErr' = r.err
    /\ objCalls' = objCalls + 1
    /\ UNCHANGED <<objKind, objArgs, ExceptObj>>

InvokeResample ==
    /\ objKind = "Resample" /\ objCalls < MaxCalls
    /\ \E x \in ObjSignals(objArgs[1]), mode \in ShiftModes :
         \E r \in {ResampleCall(object, ToScalars(x), mode)} :
            /\ objIn' = <<x>>
            /\ object' = r.obj /\ objOut' = r.out /\ objErr' = r.err
    /\ objCalls' = objCalls + 1
    /\ UNCHANGED <<objKind, objArgs, ExceptObj>>

ObjNext == InvokeFftConvolve \/ InvokeFilterHolder \/ InvokeResample

SpecReuse == ObjInit /\ [][ObjNext]_vars

(***************************************************************************)
(* Specification of two concurrent calls.  Two objects of one class are    *)
(* constructed with the same arguments; each of two threads calls          *)
(* operator() once, on the object it was given.  A call is two steps: the  *)
(* first works in the object's buffers, the second produces the result     *)
(* from them.  The members are plain vectors without a lock, so a step of  *)
(* the other thread can come between the two.  The two objects are alike, *)
(* so thread 1 is given object 1, and thread 2 either of them.             *)
(***************************************************************************)
Threads == {1, 2}
OtherThread(t) == 3 - t

\* the object a thread's call works on: the members of *this
ThisAlways1(inst) == 1
This(inst) == inst

ThreadSignals(n) == {Ramp(n), Alternating(n)}

\* the kernel a thread hands to an FftConvolve
ThreadKernel == IF ccKind = "FftConvolve" THEN ToScalars(Ramp(ccArgs[2])) ELSE <<>>

CcInit ==
    /\ ccKind \in ObjClasses
    /\ ccArgs \in ObjCtorArgs(ccKind)
    /\ ObjConvLength(ccKind, ccArgs) <= MaxSharedConv
    /\ WorkspaceLength(ObjConvLength(ccKind, ccArgs)) <= RingDim
    /\ ObjConstruct(ccKind, ccArgs).err = "none"
    /\ ccObjs = [i \in 1..2 |-> ObjConstruct(ccKind, ccArgs).obj]
    /\ \E i2 \in 1..2, s1 \in ThreadSignals(ccArgs[1]), s2 \in ThreadSignals(ccArgs[1]) :
         ccThreads = <<[inst |-> 1, x |-> s1, pc |-> "ready", out |-> <<>>],
                       [inst |-> i2, x |-> s2, pc |-> "ready", out |-> <<>>]>>
    /\ ConvIdle /\ GcdIdle /\ FftIdle /\ FcIdle /\ FhIdle /\ CrfIdle /\ RsIdle /\ WfIdle /\ SpIdle /\ FirIdle /\ ObjIdle /\ TbIdle /\ IniIdle /\ MfIdle

\* FftConvolve::operator(), first step: the length checks, then the signal
\* and the kernel are put into the two workspaces
FftConvolveLoad(t) ==
    /\ ccKind = "FftConvolve" /\ ccThreads[t].pc = "ready"
    /\ LET i == This(ccThreads[t].inst)
           o == ccObjs[i]
           x == ToScalars(ccThreads[t].x)
       IN IF Len(x) <= Len(o.m_workspace1) /\ Len(ThreadKernel) <= Len(o.m_workspace2)
          THEN /\ ccObjs' = [ccObjs EXCEPT ![i] =
                                [o EXCEPT !.m_workspace1 = LoadWorkspace(o.m_workspace1, x),
                                          !.m_workspace2 = LoadWorkspace(o.m_workspace2,
                                                                         ThreadKernel)]]
               /\ ccThreads' = [ccThreads EXCEPT ![t].pc = "working"]
          ELSE /\ ccThreads' = [ccThreads EXCEPT ![t].pc = "threw"]
               /\ UNCHANGED ccObjs
    /\ UNCHANGED <<ccKind, ccArgs, ExceptCc>>

\* FftConvolve::operator(), second step: the transforms, the product, the
\* inverse and the copy to the result, from the workspaces as they are now
FftConvolveFinish(t) ==
    /\ ccKind = "FftConvolve" /\ ccThreads[t].pc = "working"
    /\ \E mode \in ShiftModes :
         LET i == This(ccThreads[t].inst)
         IN \E r \in {FftConvolveTransform(ccObjs[i], ccObjs[i].m_workspace1,
                                           ccObjs[i].m_workspace2, mode)} :
               /\ ccObjs' = [ccObjs EXCEPT ![i] = r.obj]
               /\ ccThreads' = [ccThreads EXCEPT
                                  ![t].pc = IF r.err = "none" THEN "returned" ELSE "threw",
                                  ![t].out = r.out]
    /\ UNCHANGED <<ccKind, ccArgs, ExceptCc>>

\* FilterHolder::operator(), first step: the convolution into m_filteredSignal
FilterHolderConvolve(t) ==
    /\ ccKind = "FilterHolder" /\ ccThreads[t].pc = "ready"
    /\ \E mode \in ShiftModes :
         LET i == This(ccThreads[t].inst)
         IN \E r \in {FilterHolderCall(ccObjs[i], ToScalars(ccThreads[t].x), FALSE, mode)} :
               /\ ccObjs' = [ccObjs EXCEPT ![i] = r.obj]
               /\ ccThreads' = [ccThreads EXCEPT
                                  ![t].pc = IF r.err = "none" THEN "working" ELSE "threw"]
    /\ UNCHANGED <<ccKind, ccArgs, ExceptCc>>

\* FilterHolder::operator(), second step: removeDelay is true, the result is
\* copied from m_filteredSignal as it is now
FilterHolderCopy(t) ==
    /\ ccKind = "FilterHolder" /\ ccThreads[t].pc = "working"
    /\ ccThreads' = [ccThreads EXCEPT
                       ![t].pc = "returned",
                       ![t].out = FilterHolderCopyOut(ccObjs[This(ccThreads[t].inst)],
                                                      Len(ccThreads[t].x))]
    /\ UNCHANGED <<ccKind, ccArgs, ccObjs, ExceptCc>>

\* Resample::operator(), first step: upsampling and filtering into the
\* workspace buffer
ResampleFilter(t) ==
    /\ ccKind = "Resample" /\ ccThreads[t].pc = "ready"
    /\ \E mode \in ShiftModes :
         LET i == This(ccThreads[t].inst)
         IN \E r \in {ResampleCall(ccObjs[i], ToScalars(ccThreads[t].x), mode)} :
               /\ ccObjs' = [ccObjs EXCEPT ![i] = r.obj]
               /\ ccThreads' = [ccThreads EXCEPT
                                  ![t].pc = IF r.err = "none" THEN "working" ELSE "threw"]
    /\ UNCHANGED <<ccKind, ccArgs, ExceptCc>>

\* Resample::operator(), second step: the result is copied or decimated
\* from the workspace buffer as it is now
ResampleCopy(t) ==
    /\ ccKind = "Resample" /\ ccThreads[t].pc = "working"
    /\ ccThreads' = [ccThreads EXCEPT
                       ![t].pc = "returned",
                       ![t].out = ResampleCopyOut(ccObjs[This(ccThreads[t].inst)])]
    /\ UNCHANGED <<ccKind, ccArgs, ccObjs, ExceptCc>>

CcNext ==
    \E t \in Threads :
        \/ FftConvolveLoad(t) \/ FftConvolveFinish(t)
        \/ FilterHolderConvolve(t) \/ FilterHolderCopy(t)
        \/ ResampleFilter(t) \/ ResampleCopy(t)

SpecConcurrent == CcInit /\ [][CcNext]_vars

(***************************************************************************)
(* Specification of To3BinSum: one call of one of the four overloads on a  *)
(* power spectrum.  The real overloads are handed the real parts.          *)
(***************************************************************************)
SamplePowerBins == {<<0, 0>>, <<1, 2>>, <<4, 0 - 1>>}

\* the spectrum as a complex_vector
ComplexSpectrum(s) == [i \in 1..Len(s) |-> Cplx(s[i][1], s[i][2])]

\* the spectrum as a real_vector
RealSpectrum(s) == [i \in 1..Len(s) |-> FromInt(s[i][1])]

\* magFft before the call: empty, or three values of an earlier use
PriorMagFft == {<<>>, [i \in 1..3 |-> PlainValue(FromInt(7))]}

TbInit ==
    /\ tbIn \in SeqsUpTo(SamplePowerBins, MaxBins)
    /\ tbMag0 \in PriorMagFft
    /\ tbBuf = <<>>
    /\ tbMag = tbMag0
    /\ tbCall = <<"none", FALSE, FALSE>>
    /\ tbErr = "none"
    /\ tbpc = "ready"
    /\ ConvIdle /\ GcdIdle /\ FftIdle /\ FcIdle /\ FhIdle /\ CrfIdle /\ RsIdle /\ WfIdle /\ SpIdle /\ FirIdle /\ ObjIdle /\ CcIdle /\ IniIdle /\ MfIdle

TbDone(err) == IF err = "none" THEN "returned" ELSE "threw"

CallTo3BinSumInPlace ==
    /\ tbpc = "ready"
    /\ \E zeroUnused \in BOOLEAN, fullSpectrum \in BOOLEAN :
         \E r \in {To3BinSumInPlace(ComplexSpectrum(tbIn), zeroUnused, fullSpectrum)} :
            /\ tbBuf' = r.buf
            /\ tbErr' = r.err
            /\ tbpc' = TbDone(r.err)
            /\ tbCall' = <<"InPlace", zeroUnused, fullSpectrum>>
    /\ UNCHANGED <<tbIn, tbMag0, tbMag, ExceptTb>>

CallTo3BinSumRealInPlace ==
    /\ tbpc = "ready"
    /\ \E r \in {To3BinSumRealInPlace(RealSpectrum(tbIn))} :
         /\ tbBuf' = r.buf
         /\ tbErr' = r.err
         /\ tbpc' = TbDone(r.err)
    /\ tbCall' = <<"RealInPlace", FALSE, TRUE>>
    /\ UNCHANGED <<tbIn, tbMag0, tbMag, ExceptTb>>

CallTo3BinSumCopy ==
    /\ tbpc = "ready"
    /\ \E fullSpectrum \in BOOLEAN :
         \E r \in {To3BinSumCopy(ComplexSpectrum(tbIn), tbMag, fullSpectrum)} :
            /\ tbMag' = r.magFft
            /\ tbErr' = r.err
            /\ tbpc' = TbDone(r.err)
            /\ tbCall' = <<"Copy", FALSE, fullSpectrum>>
    /\ UNCHANGED <<tbIn, tbMag0, tbBuf, ExceptTb>>

CallTo3BinSumRealCopy ==
    /\ tbpc = "ready"
    /\ \E r \in {To3BinSumRealCopy(RealSpectrum(tbIn), tbMag)} :
         /\ tbMag' = r.magFft
         /\ tbErr' = r.err
         /\ tbpc' = TbDone(r.err)
    /\ tbCall' = <<"RealCopy", FALSE, TRUE>>
    /\ UNCHANGED <<tbIn, tbMag0, tbBuf, ExceptTb>>

TbNext ==
    \/ CallTo3BinSumInPlace
    \/ CallTo3BinSumRealInPlace
    \/ CallTo3BinSumCopy
    \/ CallTo3BinSumRealCopy

SpecThreeBin == TbInit /\ [][TbNext]_vars

(***************************************************************************)
(* Specification of Initialise: an object is constructed, invoked,         *)
(* initialised again with arguments the constructor accepts or rejects,    *)
(* and invoked again.                                                      *)
(***************************************************************************)
\* arguments some precondition of the constructor rejects
RejectedCtorArgs(class) ==
    CASE class = "FftConvolve" -> {<<0, 1>>, <<2, 0>>}
      [] class = "FilterHolder" -> {<<2, Ramp(2), TRUE>>, <<3, <<>>, FALSE>>, <<0, <<>>, TRUE>>}
      [] class = "Resample" ->
           {<<0, 1, 1, MaxFreq, 1, Ones(MaxTaps), TRUE>>,
            <<3, 0, 1, MaxFreq, 1, Ones(MaxTaps), FALSE>>,
            <<3, 1, 0, MaxFreq, 1, Ones(MaxTaps), TRUE>>}
      [] class = "WindowFunction" -> {<<"Rectangle", 1, FALSE>>, <<"index", 0, TRUE>>}
      [] class \in {"MagnitudeFft", "ThreeBinSumFft"} -> {<<"Rectangle", 3>>, <<"index", 0>>}

\* arguments the constructor accepts
AcceptedCtorArgs(class) ==
    CASE class = "FftConvolve" -> {<<2, 1>>, <<1, 2>>, <<3, 2>>}
      [] class = "FilterHolder" ->
           {<<3, Ramp(1), TRUE>>, <<3, Ramp(2), FALSE>>, <<4, Ramp(2), TRUE>>}
      [] class = "Resample" ->
           {<<3, 1, 1, MaxFreq, 1, Ones(MaxTaps), TRUE>>,
            <<3, 1, 2, MaxFreq, 1, Ones(MaxTaps), FALSE>>,
            <<2, 2, 1, MaxFreq, 1, Ones(MaxTaps), TRUE>>}
      [] class = "WindowFunction" ->
           {<<"Rectangle", 3, FALSE>>, <<"index", 4, TRUE>>, <<"parabola", 5, TRUE>>}
      [] class \in {"MagnitudeFft", "ThreeBinSumFft"} -> {<<"Rectangle", 2>>, <<"index", 4>>}

\* the classes that have an Initialise
InitialiseClasses == ObjClasses \cup {"WindowFunction", "MagnitudeFft", "ThreeBinSumFft"}

\* the arguments handed to Initialise
InitialiseArgs(class) == AcceptedCtorArgs(class) \cup RejectedCtorArgs(class)

IniInit ==
    /\ objKind \in InitialiseClasses
    /\ objArgs \in AcceptedCtorArgs(objKind)
    /\ ObjConstruct(objKind, objArgs).err = "none"
    /\ object = ObjConstruct(objKind, objArgs).obj
    /\ objIn = <<>> /\ objOut = <<>> /\ objErr = "none" /\ objCalls = 0
    /\ iniCount = 0 /\ iniArgs = <<>> /\ iniPrev = <<>> /\ iniErr = "none" /\ iniCalls = 0
    /\ ConvIdle /\ GcdIdle /\ FftIdle /\ FcIdle /\ FhIdle /\ CrfIdle /\ RsIdle /\ WfIdle /\ SpIdle /\ FirIdle /\ CcIdle /\ TbIdle /\ MfIdle

\* what an Initialise call leaves unchanged besides the object
IniFrame == <<objKind, objIn, objOut, objErr, objCalls, convVars, gcdVars, fftVars, fcVars, fhVars, crfVars, rsVars, wfVars, spVars, firVars, ccVars, tbVars, mfVars>>

\* Initialise(args) on the object, whatever its class
InitialiseObject ==
    /\ iniCount < MaxInits
    /\ \E args \in InitialiseArgs(objKind) :
         \E r \in {Initialise(object, ObjConstruct(objKind, args))} :
            /\ object' = r.obj
            /\ iniErr' = r.err
            /\ objArgs' = IF r.err = "none" THEN args ELSE objArgs
            /\ iniArgs' = args
    /\ iniPrev' = object
    /\ iniCount' = iniCount + 1
    /\ iniCalls' = objCalls
    /\ UNCHANGED IniFrame

InitialiseFftConvolve == objKind = "FftConvolve" /\ InitialiseObject

InitialiseFilterHolder == objKind = "FilterHolder" /\ InitialiseObject

InitialiseResample == objKind = "Resample" /\ InitialiseObject

InitialiseWindowFunction == objKind = "WindowFunction" /\ InitialiseObject

InitialiseMagnitudeFft == objKind = "MagnitudeFft" /\ InitialiseObject

InitialiseThreeBinSumFft == objKind = "ThreeBinSumFft" /\ InitialiseObject

\* the signals handed to an object that is initialised again
ReinvokeSignals(n) == {Ramp(n), Alternating(n)}

\* an invocation of the object, before or after it is initialised again
ReinvokeFftConvolve ==
    /\ objKind = "FftConvolve" /\ objCalls < MaxInitCalls
    /\ \E x \in ReinvokeSignals(objArgs[1]), h \in {Ramp(objArgs[2])}, mode \in ShiftModes :
         \E r \in {FftConvolveCall(object, ToScalars(x), ToScalars(h), mode)} :
            /\ objIn' = <<x, h>>
            /\ object' = r.obj /\ objOut' = r.out /\ objErr' = r.err
    /\ objCalls' = objCalls + 1
    /\ UNCHANGED <<objKind, objArgs, ExceptObj>>

ReinvokeFilterHolder ==
    /\ objKind = "FilterHolder" /\ objCalls < MaxInitCalls
    /\ \E x \in ReinvokeSignals(objArgs[1]), removeDelay \in {TRUE}, mode \in ShiftModes :
         \E r \in {FilterHolderCall(object, ToScalars(x), removeDelay, mode)} :
            /\ objIn' = <<x, removeDelay>>
            /\ object' = r.obj /\ objOut' = r.out /\ objErr' = r.err
    /\ objCalls' = objCalls + 1
    /\ UNCHANGED <<objKind, objArgs, ExceptObj>>

ReinvokeResample ==
    /\ objKind = "Resample" /\ objCalls < MaxInitCalls
    /\ \E x \in ReinvokeSignals(objArgs[1]), mode \in ShiftModes :
         \E r \in {ResampleCall(object, ToScalars(x), mode)} :
            /\ objIn' = <<x>>
            /\ object' = r.obj /\ objOut' = r.out /\ objErr' = r.err
    /\ objCalls' = objCalls + 1
    /\ UNCHANGED <<objKind, objArgs, ExceptObj>>

\* WindowFunction::operator() is const: the object stays as it is
ReinvokeWindowFunction ==
    /\ objKind = "WindowFunction" /\ objCalls < MaxInitCalls
    /\ \E x \in ReinvokeSignals(object.m_effectiveSize), alias \in BOOLEAN :
         \E r \in {WindowFunctionCall(object, x, alias)} :
            /\ objIn' = <<x, alias>>
            /\ objOut' = r.out /\ objErr' = r.err
    /\ objCalls' = objCalls + 1
    /\ UNCHANGED <<objKind, objArgs, object, ExceptObj>>

\* operator() of MagnitudeFft or ThreeBinSumFft on a real signal, with a
\* realSpectra of fftSize elements; the result is the size of realSpectra
\* and the writes made
ReinvokeSpectrumFft ==
    /\ objCalls < MaxInitCalls
    /\ \E n \in {Len(object.m_workspace)}, fullSpectrum \in BOOLEAN :
         \E r \in {SpectrumFftCall(objKind, object, n, n, fullSpectrum, <<FALSE, 0>>)} :
            /\ objIn' = <<n, fullSpectrum>>
            /\ objOut' = <<r.realSpectra, r.writes>> /\ objErr' = r.err
    /\ objCalls' = objCalls + 1
    /\ UNCHANGED <<objKind, objArgs, object, ExceptObj>>

ReinvokeMagnitudeFft == objKind = "MagnitudeFft" /\ ReinvokeSpectrumFft

ReinvokeThreeBinSumFft == objKind = "ThreeBinSumFft" /\ ReinvokeSpectrumFft

IniNext ==
    \/ ReinvokeFftConvolve
    \/ ReinvokeFilterHolder
    \/ ReinvokeResample
    \/ ReinvokeWindowFunction
    \/ ReinvokeMagnitudeFft
    \/ ReinvokeThreeBinSumFft
    \/ InitialiseFftConvolve
    \/ InitialiseFilterHolder
    \/ InitialiseResample
    \/ InitialiseWindowFunction
    \/ InitialiseMagnitudeFft
    \/ InitialiseThreeBinSumFft

SpecInitialise == IniInit /\ [][IniNext]_vars

(***************************************************************************)
(* Specification of MagnitudeFft and ThreeBinSumFft: an object of either   *)
(* class is constructed and called once on a real signal, with a           *)
(* realSpectra vector of any size.                                         *)
(***************************************************************************)
SpectrumFftClasses == {"MagnitudeFft", "ThreeBinSumFft"}

MfInit ==
    /\ mfKind \in SpectrumFftClasses
    /\ \E fftSize \in 0..RingDim :
         /\ SpectrumFftCtor("Rectangle", fftSize).err = "none"
         /\ mfft = SpectrumFftCtor("Rectangle", fftSize).obj
    /\ mfCall = <<>> /\ mfWrites = {} /\ mfSpectra = 0 /\ mfPhases = 0
    /\ mfErr = "none" /\ mfpc = "ready"
    /\ ConvIdle /\ GcdIdle /\ FftIdle /\ FcIdle /\ FhIdle /\ CrfIdle /\ RsIdle /\ WfIdle /\ SpIdle /\ FirIdle /\ ObjIdle /\ CcIdle /\ TbIdle /\ IniIdle

\* the phases argument: nullptr, or a vector that is empty or not
PhasesArgs == {<<FALSE, 0>>, <<TRUE, 0>>, <<TRUE, MaxSpectra>>}

CallSpectrumFft ==
    /\ mfpc = "ready"
    /\ \E signalLength \in {Len(mfft.m_workspace), Len(mfft.m_workspace) + 1},
          spectraSize \in 0..MaxSpectra, fullSpectrum \in BOOLEAN, phases \in PhasesArgs :
         \E r \in {SpectrumFftCall(mfKind, mfft, signalLength, spectraSize, fullSpectrum,
                                   phases)} :
            \E outcome \in UndefinedOutcomes(r.writes) :
               /\ mfCall' = <<signalLength, spectraSize, fullSpectrum, phases>>
               /\ mfWrites' = r.writes
               /\ mfSpectra' = r.realSpectra
               /\ mfPhases' = r.phases
               /\ mfErr' = r.err
               /\ mfpc' = IF outcome = "crashes" THEN "crashed"
                          ELSE IF r.err = "none" THEN "returned" ELSE "threw"
    /\ UNCHANGED <<mfKind, mfft, ExceptMf>>

CallMagnitudeFft == mfKind = "MagnitudeFft" /\ CallSpectrumFft

CallThreeBinSumFft == mfKind = "ThreeBinSumFft" /\ CallSpectrumFft

MfNext == CallMagnitudeFft \/ CallThreeBinSumFft

SpecSpectrumFft == MfInit /\ [][MfNext]_vars

(***************************************************************************)
(* Claims.                                                                 *)
(***************************************************************************)
RECURSIVE OverlapSum(_, _, _, _)
\* the sum of x[j] * h[k - j] over the j.. < Len(x) with 0 <= k - j < Len(h)
\* (j and k count from 0)
OverlapSum(x, h, k, j) ==
    IF j >= Len(x) THEN 0
    ELSE (IF k - j >= 0 /\ k - j < Len(h) THEN x[j + 1] * h[k - j + 1] ELSE 0)
         + OverlapSum(x, h, k, j + 1)

CommonDivisors(a, b) == {d \in 1..Min(a, b) : a % d = 0 /\ b % d = 0}

\* the greatest common divisor; gcd(a, 0) = gcd(0, a) = a
GreatestCommonDivisor(a, b) ==
    IF a = 0 THEN b
    ELSE IF b = 0 THEN a
    ELSE CHOOSE d \in CommonDivisors(a, b) : \A f \in CommonDivisors(a, b) : f <= d

\* C2: Gcd(a, b) returns (after at most two nested calls per bit of the
\* larger argument) the greatest common divisor of a and b, with
\* Gcd(a, 0) = Gcd(0, a) = a, Gcd(48, 36) = 12 and Gcd(2680, 496) = 8.
C2_GcdIsGreatestCommonDivisor ==
    gpc = "returned" =>
        /\ gret = GreatestCommonDivisor(ga, gb)
        /\ gdepth <= 2 * (Log2Floor(Max(ga, gb)) + 1)
        /\ (ga = 0 => gret = gb) /\ (gb = 0 => gret = ga)
        /\ (ga = 48 /\ gb = 36) => gret = 12
        /\ (ga = 2680 /\ gb = 496) => gret = 8

C2_Witness == gpc = "returned" /\ ga = 2680 /\ gb = 496 /\ gret = 8 /\ gdepth > 3

PowersOf2 == {2 ^ k : k \in 0..MaxLog2}

\* C3: when the length of the buffer is not a power of two (0 included),
\* every Forward and Inverse call throws and the buffer stays exactly as the
\* caller handed it over.
C3_NonPowerOf2Rejected ==
    (fcalls # <<>> /\ Len(data0) \notin PowersOf2) =>
        (ferr = "InvalidSize" /\ data = data0)

C3_Witness ==
    /\ fcalls = <<"Forward", "Inverse">>
    /\ Len(data0) = 3 /\ data0[2] # ScalarZero
    /\ ferr = "InvalidSize" /\ data = data0

\* C4: for every buffer whose length is a power of two, Forward followed by
\* Inverse returns the buffer to its original bins (exactly, the arithmetic
\* of the model being exact).
C4_InverseOfForward ==
    (fcalls = <<"Forward", "Inverse">> /\ Len(data0) \in PowersOf2) =>
        (ferr = "none" /\ data = data0)

C4_Witness ==
    /\ fcalls = <<"Forward", "Inverse">>
    /\ data0 = RampBuffer(RingDim)
    /\ ferr = "none" /\ data = data0

\* C5: an FftConvolve object constructed for a signal length M and a kernel
\* length N, called on a signal of M and a kernel of N samples, writes the
\* same M + N - 1 samples as Convolve on the same signal and kernel, also
\* when M and N are not powers of two (the arithmetic of the model is exact,
\* so "within tolerance" is equality).
C5_FftConvolveIsConvolve ==
    (fcpc = "returned" /\ Len(fcSig) = fcArgs[1] /\ Len(fcKer) = fcArgs[2]) =>
        /\ Len(fcOut) = fcArgs[1] + fcArgs[2] - 1
        /\ fcOut = Convolve(ToScalars(fcSig), ToScalars(fcKer))

C5_Witness ==
    /\ fcpc = "returned"
    /\ fcArgs = <<3, 2>>
    /\ fcSig = Ramp(3) /\ fcKer = Alternating(2)
    /\ fcOut = ToScalars(<<2, 3, 4, 0 - 3>>)

\* C6: when ComputeResampleFactors returns for a positive ratio, the pair
\* it returns is a fraction n/d with 1 <= n <= maxNumerator and
\* 1 <= d <= maxDenominator, and no fraction within these bounds is closer
\* to the ratio.
C6_BestApproximation ==
    (crfpc = "returned") =>
        /\ factors[1] \in 1..maxNumerator
        /\ factors[2] \in 1..maxDenominator
        /\ \A n \in 1..maxNumerator, d \in 1..maxDenominator :
             RatLeq(RatAbsDiff(factors, requiredResampleFactor),
                    RatAbsDiff(<<n, d>>, requiredResampleFactor))

\* C7: for every positive ratio, integers included, and all bounds >= 1 the
\* mediant search eventually meets a mediant beyond a bound and the function
\* returns.
C7_Terminates == (requiredResampleFactor[1] > 0) => <>(crfpc = "returned")

\* C8 as stated: for every accepted configuration ResampledSize() is
\* N * U / D rounded to the nearest integer, floor(N * U / D + 0.5).
C8_ResampledSizeIsNearest ==
    (rspc = "sized") =>
        rsSize = (2 * rsArgs[1] * rsArgs[2] + rsArgs[3]) \div (2 * rsArgs[3])

\* C8, amended: for every accepted configuration ResampledSize() is
\* N * U / D rounded down, floor(N * U / D).
C8_ResampledSizeIsFloor ==
    (rspc = "sized") => rsSize = (rsArgs[1] * rsArgs[2]) \div rsArgs[3]

C8_Witness ==
    /\ rspc = "sized"
    /\ rsArgs[1] = 3 /\ rsArgs[2] = 1 /\ rsArgs[3] = 2
    /\ rsSize = 1

\* the Nyquist-safe cutoff min(fs, fs * U / D) / 2 of the constructor's
\* arguments
NyquistSafeCutoff ==
    RatHalf(RatMin(<<rsArgs[4], 1>>, <<rsArgs[4] * rsArgs[2], rsArgs[3]>>))

\* C9: the cutoff handed to the low-pass filter design is the smaller of the
\* requested cutoff and the Nyquist-safe cutoff min(fs, fs * U / D) / 2, so
\* it never exceeds the Nyquist-safe cutoff (stated here for the
\* configurations the constructor accepts).
C9_DesignCutoffIsTighter ==
    (rspc \in {"constructed", "sized"}) =>
        /\ rsDesign.passed
        /\ RatEq(rsDesign.cutoffFreqHz, RatMin(<<rsArgs[5], 1>>, NyquistSafeCutoff))
        /\ RatLeq(rsDesign.cutoffFreqHz, NyquistSafeCutoff)

\* C10: a FilterHolder constructed for N samples and M taps, called with
\* removeDelay = true on a signal of N samples, writes exactly N samples,
\* sample i being sample i + floor((M - 1) / 2) of the N + M - 1 samples of
\* the full convolution, and every index it reads lies inside those
\* N + M - 1 samples; this on the direct and on the fast path.
C10_RemoveDelayWindow ==
    (fhpc = "returned" /\ fhRemove) =>
        LET N == fhArgs[1]
            M == Len(fhArgs[2])
        IN /\ Len(fhSig) = N
           /\ Len(fhOut) = N
           /\ \A i \in 0..(N - 1) :
                fhOut[i + 1] =
                    FromInt(OverlapSum(fhSig, fhArgs[2], i + ((M - 1) \div 2), 0))
           /\ fhReads \subseteq 0..(N + M - 2)
           /\ Cardinality(fhReads) = N

C10_Witness ==
    /\ fhpc = "returned" /\ fhRemove
    /\ fhArgs = <<4, Ramp(3), TRUE>>
    /\ fhSig = Ramp(4)
    /\ fhOut = ToScalars(<<4, 10, 16, 17>>)
    /\ fhReads = 1..4

\* C11: a FilterHolder call with removeDelay = false on a signal of N samples
\* with M coefficients hands the full convolution to the caller: the result
\* range receives N + M - 1 samples, those of the convolution.
C11_FullConvolutionDelivered ==
    (fhpc = "returned" /\ ~fhRemove) =>
        /\ Len(fhOut) = fhArgs[1] + Len(fhArgs[2]) - 1
        /\ fhOut = Convolve(ToScalars(fhSig), ToScalars(fhArgs[2]))

\* C12: after the construction of a WindowFunction of size N >= 2, with any
\* generator, the N stored coefficients are symmetric,
\* coefficient[n] = coefficient[N - 1 - n]; a generator built on
\* WindowGenerator evaluates its formula once for each index of the first
\* half, and once for the middle index when N is odd, in this order and for
\* no other index, and these coefficients hold the value of the formula.
C12_CoefficientsSymmetric ==
    (wfpc \in {"constructed", "queried", "applied", "call threw"}) =>
        LET w == wf.m_windowCoefficients
            N == wfArgs[2]
            evaluated == (N + 1) \div 2
        IN /\ N >= 2
           /\ Len(w) = N
           /\ \A n \in 0..(N - 1) : w[n + 1] = w[N - n]
           /\ (wfArgs[1] = "Rectangle") => wfEvals = <<>>
           /\ (wfArgs[1] # "Rectangle") =>
                /\ wfEvals = [i \in 1..evaluated |-> i - 1]
                /\ \A n \in 0..(evaluated - 1) :
                     w[n + 1] = EvaluateCoefficient(wfArgs[1], n, N - 1)

C12_Witness ==
    /\ wfpc = "constructed"
    /\ wfArgs = <<"index", 5, FALSE>>
    /\ wf.m_windowCoefficients = <<1, 2, 3, 2, 1>>
    /\ wfEvals = <<0, 1, 2>>

\* C13: for a WindowFunction constructed with (size, ignoreLastValue),
\* ActualSize() is size, and EffectiveSize() is size - 1 when
\* ignoreLastValue is true and size is odd, and size in every other case.
C13_EffectiveSize ==
    (wfpc = "queried") =>
        /\ wfQuery[1] = wfArgs[2]
        /\ wfQuery[2] = IF wfArgs[3] /\ wfArgs[2] % 2 = 1 THEN wfArgs[2] - 1 ELSE wfArgs[2]

\* C14: applying a WindowFunction to a range succeeds exactly when the
\* length of the range is EffectiveSize(), and fails with "invalid data size"
\* otherwise; when it succeeds, result[i] = data[i] * coefficient[i] for every
\* i < EffectiveSize(), also when the result range is the data range; applied
\* to a range of ones the result is Coefficients().
C14_ApplyIsElementwiseProduct ==
    (wfpc \in {"applied", "call threw"}) =>
        /\ (wfpc = "applied") <=> (Len(wfData) = wfQuery[2])
        /\ (wfpc = "call threw") => (wfErr = "invalid data size" /\ wfOut = <<>>)
        /\ (wfpc = "applied") =>
             /\ Len(wfOut) = wfQuery[2]
             /\ \A i \in 1..wfQuery[2] : wfOut[i] = wfData[i] * wf.m_windowCoefficients[i]
             /\ (wfData = Ones(wfQuery[2])) => wfOut = wfQuery[3]

C14_Witness ==
    /\ wfpc = "applied" /\ wfAlias
    /\ wfArgs = <<"index", 5, TRUE>>
    /\ wfData = Ramp(4)
    /\ wfOut = <<1, 4, 9, 8>>

\* |2 z| for a bin other than DC and |z| for DC; the square of it when power
\* is asked for
DoubledValue(z, i, power) ==
    LET w == IF i # 0 THEN TimesTwo(z) ELSE z
    IN IF power THEN StdNorm(w) ELSE StdAbs(w)

\* the value processed bin i (from 0) was left with by the call of spCall,
\* in the buffer or in the real vector
ExtractedValue(i) ==
    IF spCall[1] \in {"ToMagnitude", "ToPower"} THEN spData[i + 1].re ELSE spOut[i + 1]

\* C15 as stated: in ToMagnitude and in ToPower every processed bin but DC is
\* doubled first: bin i >= 1 yields |2 z[i]|, in ToPower |2 z[i]|^2, and
\* bin 0 yields |z[0]|, in ToPower |z[0]|^2, in the in-place and in the
\* copy-out overloads alike.
C15_EveryNonDcBinDoubled ==
    (sppc = "returned") =>
        \A i \in 0..(HalfSize(spData0, spCall[3]) - 1) :
            ExtractedValue(i) =
                DoubledValue(spData0[i + 1], i, spCall[1] \in {"ToPower", "ToPowerCopy"})

\* C15, amended: ToMagnitude doubles every processed bin but DC (|2 z[i]| for
\* i >= 1, |z[0]| for bin 0); ToPower doubles no bin and yields |z[i]|^2 for
\* every processed bin; the in-place and the copy-out overloads give the same
\* values.
C15_MagnitudeDoubledPowerNot ==
    (sppc = "returned") =>
        \A i \in 0..(HalfSize(spData0, spCall[3]) - 1) :
            /\ (spCall[1] \in {"ToMagnitude", "ToMagnitudeCopy"}) =>
                 ExtractedValue(i) = DoubledValue(spData0[i + 1], i, FALSE)
            /\ (spCall[1] \in {"ToPower", "ToPowerCopy"}) =>
                 ExtractedValue(i) = StdNorm(spData0[i + 1])
            /\ (spCall[1] = "ToMagnitude") =>
                 spData[i + 1].re = ToMagnitudeCopy(spData0, spCall[3])[i + 1]
            /\ (spCall[1] = "ToPower") =>
                 spData[i + 1].re = ToPowerCopy(spData0, spCall[3])[i + 1]

C15_Witness ==
    /\ sppc = "returned"
    /\ spCall = <<"ToPower", FALSE, TRUE>>
    /\ spData0 = <<Bin(0 - 1, 1), Bin(3, 0 - 4)>>
    /\ spData = <<Bin(2, 0), Bin(25, 0)>>


\* C16: FirHighPassFilter and FirNotchFilter both reject an even tap count:
\* a finished call of either with an even numTaps has thrown a precondition
\* error and returned no coefficients.
C16_EvenTapsRejected ==
    (/\ firpc \in {"returned", "threw"}
     /\ firCall[1] \in {"FirHighPassFilter", "FirNotchFilter"}
     /\ firCall[2] % 2 = 0)
        => (firpc = "threw" /\ firRet.err # "none" /\ firRet.numCoeffs = 0)

\* C17: every finished call of FirBandPassFilter or FirNotchFilter that
\* passed validation has its normalised low band edge above 0 and its
\* normalised high band edge at most 1 (the Nyquist frequency).
C17_BandEdgesInRange ==
    (/\ firpc = "returned"
     /\ firCall[1] \in {"FirBandPassFilter", "FirNotchFilter"})
        => (/\ RatLess(<<0, 1>>, firRet.cutoffs[1])
            /\ RatLeq(firRet.cutoffs[2], <<1, 1>>))


\* the sizes of the workspace buffers an object owns
WorkspaceSizes(class, o) ==
    CASE class = "FftConvolve" -> <<Len(o.m_workspace1), Len(o.m_workspace2)>>
      [] class = "FilterHolder" ->
           <<Len(o.m_filteredSignal), Len(o.m_fftConvolve.m_workspace1),
             Len(o.m_fftConvolve.m_workspace2)>>
      [] class = "Resample" ->
           <<Len(o.m_workspaceBuffer), Len(o.m_filterHolder.m_filteredSignal),
             Len(o.m_filterHolder.m_fftConvolve.m_workspace1),
             Len(o.m_filterHolder.m_fftConvolve.m_workspace2)>>

AloneOutputs(t) ==
    LET o == ObjConstruct(ccKind, ccArgs).obj
        x == ToScalars(ccThreads[t].x)
    IN CASE ccKind = "FftConvolve" ->
              {FftConvolveCall(o, x, ThreadKernel, mode).out : mode \in ShiftModes}
         [] ccKind = "FilterHolder" ->
              {FilterHolderCall(o, x, TRUE, mode).out : mode \in ShiftModes}
         [] ccKind = "Resample" ->
              {ResampleCall(o, x, mode).out : mode \in ShiftModes}

\* C19: two calls that run concurrently on distinct instances never
\* interfere: each caller receives what its call returns alone.  (On the
\* same instance they can interfere: C19_Witness is such an interleaving.)
C19_DistinctInstancesIndependent ==
    (ccKind \in ObjClasses) =>
        \A t \in Threads :
            (/\ ccThreads[t].pc = "returned"
             /\ ccThreads[t].inst # ccThreads[OtherThread(t)].inst)
                => ccThreads[t].out \in AloneOutputs(t)

\* both threads called the same FilterHolder, and thread 1 received an
\* output that differs from what its call returns alone
C19_Witness ==
    /\ ccKind = "FilterHolder"
    /\ ccThreads[1].inst = ccThreads[2].inst
    /\ ccThreads[1].pc = "returned" /\ ccThreads[2].pc = "returned"
    /\ ccThreads[1].out \notin AloneOutputs(1)
    /\ ccThreads[2].out \in AloneOutputs(2)


PowersOfTwo == {2 ^ k : k \in 0..(MaxLog2 + 1)}

\* the next power of two >= L
NextPowerOfTwoAtLeast(L) == CHOOSE p \in PowersOfTwo : p >= L /\ \A q \in PowersOfTwo : q >= L => p <= q

\* the convolution length a constructed FftConvolve was sized for
ConvolutionLength == fcArgs[1] + fcArgs[2] - 1

\* C20 as stated: for every signalLength >= 1 and kernelLength >= 1 both
\* workspaces of a constructed FftConvolve have the length of the next power
\* of two >= signalLength + kernelLength - 1 (that length itself when it is
\* a power of two).
C20_WorkspaceNextPowerOfTwo ==
    (fcpc \in {"constructed", "returned", "threw"}) =>
        /\ Len(fc.m_workspace1) = NextPowerOfTwoAtLeast(ConvolutionLength)
        /\ Len(fc.m_workspace2) = NextPowerOfTwoAtLeast(ConvolutionLength)

\* C20 amended: both workspaces have the length of the smallest power of two
\* strictly greater than signalLength + kernelLength - 1, which is twice
\* that length when it is a power of two.
C20_WorkspacePowerOfTwoAbove ==
    (fcpc \in {"constructed", "returned", "threw"}) =>
        /\ fcArgs[1] >= 1 /\ fcArgs[2] >= 1
        /\ Len(fc.m_workspace1) = Len(fc.m_workspace2)
        /\ Len(fc.m_workspace1) \in PowersOfTwo
        /\ Len(fc.m_workspace1) > ConvolutionLength
        /\ Len(fc.m_workspace1) <= 2 * ConvolutionLength
        /\ (ConvolutionLength \in PowersOfTwo) => Len(fc.m_workspace1) = 2 * ConvolutionLength

\* signalLength 3 and kernelLength 2: the convolution length 4 is a power of
\* two and the workspaces have 8 bins
C20_Witness ==
    /\ fcpc = "constructed" /\ fcArgs = <<3, 2>>
    /\ Len(fc.m_workspace1) = 8 /\ Len(fc.m_workspace2) = 8


\* C21: a finished call of an FftConvolve whose signal range or kernel range
\* has another length than the one the object was constructed with has
\* thrown and has written nothing to the result range.
C21_MismatchedLengthRejected ==
    (/\ fcpc \in {"returned", "threw"}
     /\ (Len(fcSig) # fcArgs[1] \/ Len(fcKer) # fcArgs[2]))
        => (fcpc = "threw" /\ fcErr # "none" /\ fcOut = <<>>)


\* what the last call returns on a freshly constructed object
FreshOutputs ==
    LET o == ObjConstruct(objKind, objArgs).obj
        x == ToScalars(objIn[1])
    IN CASE objKind = "FftConvolve" ->
              {FftConvolveCall(o, x, ToScalars(objIn[2]), mode).out : mode \in ShiftModes}
         [] objKind = "FilterHolder" ->
              {FilterHolderCall(o, x, objIn[2], mode).out : mode \in ShiftModes}
         [] objKind = "Resample" ->
              {ResampleCall(o, x, mode).out : mode \in ShiftModes}

\* C22: after any sequence of earlier calls, what a call of an FftConvolve,
\* FilterHolder or Resample writes to its result range depends only on the
\* construction parameters and on the call's input: it is what the same call
\* writes on a freshly constructed object.
C22_OutputDependsOnInputOnly ==
    (objKind \in ObjClasses /\ objCalls > 0) => objOut \in FreshOutputs

\* an FftConvolve for lengths (2, 1), called a third time, with the signal
\* of the right length, after earlier calls, and returning output
C22_Witness ==
    /\ objKind = "FftConvolve" /\ objArgs = <<2, 1>>
    /\ objCalls = 3 /\ objErr = "none"
    /\ objIn = <<Ramp(2), Ramp(1)>>
    /\ objOut = ToScalars(<<1, 2>>)
    /\ object.m_workspace1 # Zeros(4)


\* the workspace indices the result of the last Resample call was read from:
\* every index of the workspace when it is copied whole (U > 1, D = 1)
ResampleReads ==
    IF object.m_upsampleFactor > 1 /\ ~(object.m_downsampleFactor > 1)
    THEN 0..(Len(object.m_workspaceBuffer) - 1)
    ELSE DecimateReads(Len(object.m_workspaceBuffer), object.m_downsampleFactor,
                       object.m_resampledLength)

\* C23: a call of a Resample with an input of the constructed length writes
\* exactly ResampledSize() samples, sample i being the filtered workspace
\* sample at index i * D (the whole workspace when D = 1), and reads no
\* workspace index at or beyond the workspace length.
C23_DecimationWritesResampledSize ==
    (objKind = "Resample" /\ objCalls > 0 /\ Len(objIn[1]) = objArgs[1]) =>
        /\ objErr = "none"
        /\ Len(objOut) = object.m_resampledLength
        /\ \A i \in 0..(Len(objOut) - 1) :
             objOut[i + 1] = object.m_workspaceBuffer[i * object.m_downsampleFactor + 1]
        /\ (object.m_downsampleFactor = 1) => objOut = object.m_workspaceBuffer
        /\ \A idx \in ResampleReads : idx < Len(object.m_workspaceBuffer)
        /\ Cardinality(ResampleReads) = Len(objOut)

\* N = 2, U = 2, D = 2: two samples are written, from workspace indices 0
\* and 2, and they differ
C23_Witness ==
    /\ objKind = "Resample" /\ objArgs[1] = 2 /\ objArgs[2] = 2 /\ objArgs[3] = 2
    /\ objCalls > 0 /\ objErr = "none" /\ objIn = <<Ramp(2)>>
    /\ Len(objOut) = 2 /\ ResampleReads = {0, 2}
    /\ objOut[1] # objOut[2]
    /\ objOut[2] = object.m_workspaceBuffer[3]
    /\ objOut[2] # object.m_workspaceBuffer[2]


\* the number of bins the last call processed
ProcessedBins == IF spCall[3] THEN Len(spData0) ELSE Len(spData0) \div 2

\* the real part an in-place call leaves in processed bin i (from 1): the
\* magnitude sqrt(re^2 + im^2), doubled except in bin 1, or the power
InPlaceResult(i) ==
    LET sum == spData0[i].re.sq + spData0[i].im.sq
    IN  IF spCall[1] = "ToPower" THEN RealOf(sum)
        ELSE [sign |-> Sgn(sum), sq |-> IF i = 1 THEN sum ELSE 4 * sum]

\* C24: in-place ToMagnitude and ToPower on N bins leave each of the first L
\* bins (L = N when fullSpectrum, else N / 2) with its result in the real
\* part and imaginary part 0; bins L..N-1 are unchanged when zeroUnused is
\* false and 0 + 0i when it is true.
C24_InPlaceChangesFirstBinsOnly ==
    (sppc = "returned" /\ spCall[1] \in {"ToMagnitude", "ToPower"}) =>
        /\ Len(spData) = Len(spData0)
        /\ \A i \in 1..Len(spData) :
             IF i <= ProcessedBins
             THEN spData[i].re = InPlaceResult(i) /\ spData[i].im = RealOf(0)
             ELSE IF spCall[2] THEN spData[i] = Bin(0, 0)
             ELSE spData[i] = spData0[i]

\* half spectrum of four bins without zeroing: bin 2 is replaced, bins 3 and
\* 4 keep their non-zero values
C24_Witness ==
    /\ sppc = "returned" /\ spCall = <<"ToMagnitude", FALSE, FALSE>>
    /\ spData0 = <<Bin(3, 0 - 4), Bin(3, 0 - 4), Bin(0 - 1, 1), Bin(3, 0 - 4)>>
    /\ spData[2] = [re |-> [sign |-> 1, sq |-> 100], im |-> RealOf(0)]
    /\ spData[3] = Bin(0 - 1, 1) /\ spData[4] = Bin(3, 0 - 4)


\* the number of bins the last To3BinSum call had to process
ThreeBinProcessed == IF tbCall[3] THEN Len(tbIn) ELSE Len(tbIn) \div 2

\* the power of bin i (from 0) of the processed part; 0 outside of it
ThreeBinPower(i) == IF i < 0 \/ i >= ThreeBinProcessed THEN 0 ELSE tbIn[i + 1][1]

\* p[i-1] + p[i] + p[i+1]
ThreeBinSum(i) == ThreeBinPower(i - 1) + ThreeBinPower(i) + ThreeBinPower(i + 1)

\* the values the last call put out: the real parts of the bins of the
\* buffer that hold a root, the real vector, or magFft
ThreeBinOutput ==
    CASE tbCall[1] = "InPlace" ->
           [i \in 1..Cardinality({j \in 1..Len(tbBuf) : tbBuf[j].re.root}) |-> tbBuf[i].re]
      [] tbCall[1] = "RealInPlace" -> SelectSeq(tbBuf, LAMBDA v : v.root)
      [] OTHER -> tbMag

\* C25: each To3BinSum overload puts out exactly L values for L processed
\* bins, value i being the root of p[i-1] + p[i] + p[i+1] with terms
\* outside 0..L-1 counted as 0.
C25_ThreeBinSumCentred ==
    (tbpc \in {"returned", "threw"}) =>
        /\ Len(ThreeBinOutput) = ThreeBinProcessed
        /\ \A i \in 1..Len(ThreeBinOutput) :
             ThreeBinOutput[i] = PeakMagnitude(FromInt(ThreeBinSum(i - 1)))

\* the same for calls that have at least one bin to process
C25_CentredWhenNotEmpty ==
    (tbpc \in {"returned", "threw"} /\ ThreeBinProcessed > 0) =>
        /\ tbErr = "none"
        /\ Len(ThreeBinOutput) = ThreeBinProcessed
        /\ \A i \in 1..ThreeBinProcessed :
             ThreeBinOutput[i] = PeakMagnitude(FromInt(ThreeBinSum(i - 1)))

\* with no bin to process, every overload throws the error of Convolve
C25_EmptyThrows ==
    (tbpc \in {"returned", "threw"} /\ ThreeBinProcessed = 0) =>
        (tbpc = "threw" /\ tbErr = "range 1 invalid")


RECURSIVE BitReversal(_, _)
\* the m-bit reversal of a, by arithmetic
BitReversal(a, m) ==
    IF m = 0 THEN 0 ELSE (a % 2) * 2 ^ (m - 1) + BitReversal(a \div 2, m - 1)

\* a buffer whose bin i holds the value i
Labelled(N) == [i \in 1..N |-> FromInt(i - 1)]

\* the reorder stage on N bins is the bit-reversal permutation: every index
\* maps to its reversal, one pass moves the bin at the reversal of i to i,
\* and two passes restore the order
ReorderIsReversal(N, mode) ==
    LET m == Log2Floor(N)
        once == Decimate(Labelled(N), 0, N, m, mode)
    IN  /\ \A a \in 0..(N - 1) :
             /\ ReorderIndex(a, m, mode) = BitReversal(a, m)
             /\ ReorderIndex(a, m, mode) < N
        /\ once = [i \in 1..N |-> FromInt(BitReversal(i - 1, m))]
        /\ Decimate(once, 0, N, m, mode) = Labelled(N)

\* C26: for every size N = 2^m that Forward accepts, N = 1 included, the
\* shift amount 32 - m of the reorder stage is a valid 32-bit shift (0..31)
\* and the stage is the m-bit bit-reversal permutation.
C26_ReorderIsBitReversal ==
    (fcalls = <<"Forward">> /\ ferr = "none") =>
        /\ (32 - Log2Floor(Len(data))) \in 0..31
        /\ \A mode \in ShiftModes : ReorderIsReversal(Len(data), mode)

\* the same for the sizes above 1, where the shift amount is at most 31
C26_ReversalAboveOne ==
    (fcalls = <<"Forward">> /\ ferr = "none" /\ Len(data) > 1) =>
        /\ (32 - Log2Floor(Len(data))) \in 1..31
        /\ \A mode \in ShiftModes : ReorderIsReversal(Len(data), mode)

\* for N = 1 the shift amount is 32; whatever the shift yields, the one
\* index maps to itself
C26_SizeOneShiftsBy32 ==
    (fcalls = <<"Forward">> /\ ferr = "none" /\ Len(data) = 1) =>
        /\ 32 - Log2Floor(Len(data)) = 32
        /\ \A mode \in ShiftModes : ReorderIsReversal(1, mode)


\* what the last invocation yields on the object o: the error, the result
\* and the object afterwards, for either outcome of the undefined shift
CallResults(o) ==
    CASE objKind = "FftConvolve" ->
           {<<r.err, r.out, r.obj>> :
              r \in {FftConvolveCall(o, ToScalars(objIn[1]), ToScalars(objIn[2]), mode) :
                       mode \in ShiftModes}}
      [] objKind = "FilterHolder" ->
           {<<r.err, r.out, r.obj>> :
              r \in {FilterHolderCall(o, ToScalars(objIn[1]), objIn[2], mode) :
                       mode \in ShiftModes}}
      [] objKind = "Resample" ->
           {<<r.err, r.out, r.obj>> :
              r \in {ResampleCall(o, ToScalars(objIn[1]), mode) : mode \in ShiftModes}}
      [] objKind = "WindowFunction" ->
           {<<r.err, r.out, o>> : r \in {WindowFunctionCall(o, objIn[1], objIn[2])}}
      [] objKind \in {"MagnitudeFft", "ThreeBinSumFft"} ->
           {<<r.err, <<r.realSpectra, r.writes>>, o>> :
              r \in {SpectrumFftCall(objKind, o, objIn[1], objIn[1], objIn[2], <<FALSE, 0>>)}}

\* C27: after an Initialise(args) that returns, on an object in any prior
\* state, every member equals that of a freshly constructed Class(args), and
\* the invocations that follow behave as on the fresh object.
C27_InitialiseDiscardsPriorState ==
    (iniCount > 0 /\ iniErr = "none") =>
        /\ objArgs = iniArgs
        /\ IF objCalls = iniCalls THEN object = ObjConstruct(objKind, iniArgs).obj
           ELSE IF objCalls = iniCalls + 1
           THEN <<objErr, objOut, object>> \in CallResults(ObjConstruct(objKind, iniArgs).obj)
           ELSE objOut \in {r[2] : r \in CallResults(ObjConstruct(objKind, iniArgs).obj)}

\* an FftConvolve(3, 2) whose workspaces a call has filled is initialised
\* with (2, 1) and invoked: the workspaces have the new size and the result
\* is that of a fresh FftConvolve(2, 1)
C27_Witness ==
    /\ objKind = "FftConvolve" /\ iniCount = 1 /\ iniErr = "none" /\ iniArgs = <<2, 1>>
    /\ iniCalls = 1 /\ objCalls = 2
    /\ Len(iniPrev.m_workspace1) = 8 /\ iniPrev.m_workspace1 # Zeros(8)
    /\ Len(object.m_workspace1) = 4
    /\ objIn = <<Ramp(2), Ramp(1)>> /\ objErr = "none" /\ objOut = ToScalars(<<1, 2>>)

\* the errors of the precondition checks of each constructor
PreconditionErrors(class) ==
    CASE class = "FftConvolve" -> {"signalLength <= 0", "kernelLength <= 0"}
      [] class = "FilterHolder" -> {"signalLength is too small", "filterCoeffs is empty"}
      [] class = "Resample" ->
           {"too few signal samples", "invalid upsample factor", "invalid downsample factor"}
      [] class = "WindowFunction" -> {"invalid window size"}
      [] class \in {"MagnitudeFft", "ThreeBinSumFft"} ->
           {"FFT size not a power of 2", "invalid window size"}

\* C28: an Initialise whose arguments violate a precondition of the
\* constructor throws the precondition's error and leaves the object with
\* its complete prior state; it can be invoked as before.
C28_FailedInitialiseKeepsState ==
    (iniCount > 0 /\ iniArgs \in RejectedCtorArgs(objKind)) =>
        /\ iniErr \in PreconditionErrors(objKind)
        /\ IF objCalls = iniCalls THEN object = iniPrev
           ELSE (objCalls = iniCalls + 1) =>
                   <<objErr, objOut, object>> \in CallResults(iniPrev)

\* the part of it that holds: every Initialise with rejected arguments
\* throws, and the object keeps its prior state
C28_FailedInitialiseThrowsAndKeepsState ==
    (iniCount > 0 /\ iniArgs \in RejectedCtorArgs(objKind)) =>
        /\ iniErr # "none"
        /\ IF objCalls = iniCalls THEN object = iniPrev
           ELSE (objCalls = iniCalls + 1) =>
                   <<objErr, objOut, object>> \in CallResults(iniPrev)

\* the error is the precondition's unless a FilterHolder is initialised
\* with a signal length of 0 and no coefficients
C28_ErrorIsPreconditionUnlessEmpty ==
    (iniCount > 0 /\ iniErr # "none") =>
        \/ iniErr \in PreconditionErrors(objKind)
        \/ objKind = "FilterHolder" /\ iniArgs = <<0, <<>>, TRUE>> /\ iniErr = "std::length_error"


\* C29: whenever ComputeResampleFactors returns, the pair (n, d) satisfies
\* 1 <= n <= maxNumerator and 1 <= d <= maxDenominator.
C29_FactorsWithinBounds ==
    (crfpc = "returned") =>
        /\ 1 <= factors[1] /\ factors[1] <= maxNumerator
        /\ 1 <= factors[2] /\ factors[2] <= maxDenominator

\* what holds instead: the pair is within the bounds, or it is (0, 0), the
\* pair the function starts with, when the first mediant exceeds a bound
C29_WithinBoundsOrZero ==
    (crfpc = "returned") =>
        \/ /\ factors[1] \in 1..maxNumerator
           /\ factors[2] \in 1..maxDenominator
        \/ /\ factors = <<0, 0>>
           /\ error = DblMax


\* the size realSpectra must have on return
ExpectedSpectraSize == IF mfCall[3] THEN Len(mfft.m_workspace) ELSE Len(mfft.m_workspace) \div 2

\* C30: in every call of operator() on a real signal that passes the
\* signal-length check, each write into realSpectra lies within its bounds
\* at that moment, whatever size the vector had, and on return realSpectra
\* (and phases, when given) has fftSize / 2 elements, or fftSize with
\* fullSpectrum.
C30_SpectraWritesInBounds ==
    (mfpc \in {"returned", "threw", "crashed"} /\ mfCall[1] = Len(mfft.m_workspace)) =>
        /\ \A w \in mfWrites : (w.buf = "realSpectra") => w.index < w.size
        /\ (mfpc = "returned") =>
              /\ mfSpectra = ExpectedSpectraSize
              /\ mfCall[4][1] => mfPhases = ExpectedSpectraSize

\* the sizes on return are as claimed
C30_SizesOnReturn ==
    (mfpc = "returned") =>
        /\ mfCall[1] = Len(mfft.m_workspace)
        /\ mfSpectra = ExpectedSpectraSize
        /\ mfCall[4][1] => mfPhases = ExpectedSpectraSize

\* a call that passes the check writes within all buffers exactly when
\* realSpectra comes with fftSize elements: a shorter one is overrun by the
\* window, a longer one overruns m_workspace
C30_InBoundsOnlyForFftSize ==
    (mfpc \in {"returned", "threw", "crashed"} /\ mfCall[1] = Len(mfft.m_workspace)) =>
        /\ (OutOfBounds(mfWrites) = {}) <=> (mfCall[2] = Len(mfft.m_workspace))
        /\ (mfCall[2] < Len(mfft.m_workspace)) <=>
              (\E w \in OutOfBounds(mfWrites) : w.buf = "realSpectra")
        /\ (mfCall[2] > Len(mfft.m_workspace)) <=>
              (\E w \in OutOfBounds(mfWrites) : w.buf = "m_workspace")

=============================================================================
